---- MODULE Spec2Model ----
(***************************************************************************)
(* PastUSB (src/PastUSB.py): USB connection history reconstructed from     *)
(* Windows registry trees / setupapi logs and from Linux syslog files.     *)
(*                                                                         *)
(* The module holds four state machines over one set of variables:         *)
(*   SpecWinExt  parse_windows_log_file, one action per loop iteration     *)
(*   SpecLinExt  parse_linux_log_file, one action per loop iteration       *)
(*   SpecLinux   LinuxViewer.get_usb_devices (section scan + enrichment)   *)
(*   SpecWin     WindowsViewer.get_usb_devices, one action per pass        *)
(* A specification leaves the variables of the other machines untouched.   *)
(***************************************************************************)
EXTENDS Integers, Sequences, FiniteSets, TLC

(***************************************************************************)
(* Optional values: Python's None is the empty tuple, a present value v    *)
(* is the one-element tuple <<v>>.                                         *)
(***************************************************************************)
None == << >>

Some(v) == << v >>

IsSome(o) == o # None

Val(o) == o[1]

Last(s) == s[Len(s)]

Count(s, x) == Cardinality({i \in 1..Len(s) : s[i] = x})

RECURSIVE SeqsUpTo(_, _)
SeqsUpTo(S, n) ==
  IF n = 0 THEN {<< >>}
  ELSE LET shorter == SeqsUpTo(S, n - 1)
       IN  shorter \cup {Append(s, x) : s \in {t \in shorter : Len(t) = n - 1}, x \in S}

(***************************************************************************)
(* Bounds                                                                  *)
(***************************************************************************)
MaxWinLines == 6

MaxLinLines == 5

VARIABLES
  log_file_w,    \* parse_windows_log_file: the lines of the opened file
  pos_w,         \* number of lines the file iterator has handed out
  log_section,   \* the list log_section (indices of lines of log_file_w)
  yielded_w,     \* the sections yielded so far, as the consumer received them
  pc_w,          \* "off" | "run" | "done" | "error" (RuntimeError out of next())
  log_file_l,    \* parse_linux_log_file: the lines of the opened file
  pos_l,         \* number of lines the file iterator has handed out
  section,       \* the list section (indices of lines of log_file_l)
  yielded_l,     \* the sections yielded so far, as the consumer received them
  pc_l,          \* "off" | "run" | "done"
  log_paths,     \* LinuxViewer: sorted(glob('/var/log/syslog*'), reverse=True)
  file_ix,       \* index in log_paths of the file being read (0: none yet)
  year,          \* last-modification year of that file
  slot,          \* place in that file of the last section taken from it
  serial_number, \* __get_base_device_info: the local serial_number (line 462)
  connect_time,  \* __get_base_device_info: the local connect_time (line 463)
  sections_read, \* number of sections __get_log_sections has yielded
  usb_devices_l, \* the list usb_devices of LinuxViewer
  enrich_ix,     \* _set_devices_info: number of devices visited
  pc_c,          \* "off" | "scan" | "enrich" | "done" | "raised"
  usb_devices_w, \* WindowsViewer.get_usb_devices: the list usb_devices
  enrich_ix_w,   \* _set_devices_info: number of devices visited
  time_dict,     \* __set_first_connect_dates: the dict time_dict (line 388)
  pc_v,          \* the pass of WindowsViewer.get_usb_devices to run next:
                 \* "off" | "base" | "ids" | "guids" | "letters" | "logs" |
                 \* "first" | "last" | "enrich" | "done" | "raised"
  usb_devices_e, \* _set_devices_info: the argument usb_devices
  devices_in,    \* the records as they were when first passed in
  enrich_ix_e,   \* _set_devices_info: number of devices visited in this call
  lookups,       \* positions of the devices get_device_info_from_web was
                 \* called for in this call, in call order
  calls,         \* number of calls of _set_devices_info that returned
  pc_e,          \* "off" | "loop" | "returned" | "raised"
  mode,          \* "script" (__main__) | "import" (PastUSB()) | "off"
  system,        \* platform.system()
  privilege,     \* IsUserAnAdmin() / geteuid() == 0: "granted" | "denied" |
                 \* "error" (the call raised)
  viewer,        \* the local viewer: None before get_usb_viewer()
  devices_m,     \* the local devices: None before viewer.get_usb_devices()
  printed,       \* the lines the run has printed so far, the message of
                 \* the exception it raised last
  print_ix,      \* __main__: number of devices the final loop has printed
  pc_m,          \* "off" | "banner" | "check" | "viewer" | "scan" | "report" |
                 \* "list" | "exit" | "raised" | "end"
  join_pass,     \* the join pass applied: "ids" | "guids" | "letters" |
                 \* "first" | "last"
  join_device,   \* the record the pass is applied to
  join_items,    \* the source entries the pass scans
  join_result,   \* None, or the record after the pass
  pc_j,          \* "off" | "call" | "returned" | "raised"
  p_section,     \* __get_base_device_info: the section of one iteration
  p_year,        \* and its year
  p_devices,     \* the list usb_devices after the iteration
  pc_p,          \* "off" | "call" | "returned" | "raised"
  t_stamp,       \* convert_windows_time_to_unix: the argument windows_timestamp
  t_unix,        \* None, or the value returned
  pc_t,          \* "off" | "call" | "returned"
  b_tree,        \* __get_base_device_info: the USBSTOR tree it reads
  b_devices,     \* None, or the list returned
  pc_b           \* "off" | "call" | "returned" | "raised"

winx == <<log_file_w, pos_w, log_section, yielded_w, pc_w>>

linx == <<log_file_l, pos_l, section, yielded_l, pc_l>>

lincor == <<log_paths, file_ix, year, slot, serial_number, connect_time, sections_read,
            usb_devices_l, enrich_ix, pc_c>>

wincor == <<usb_devices_w, enrich_ix_w, time_dict, pc_v>>

enrx == <<usb_devices_e, devices_in, enrich_ix_e, lookups, calls, pc_e>>

entryx == <<mode, system, privilege, viewer, devices_m, printed, print_ix, pc_m>>

joinx == <<join_pass, join_device, join_items, join_result, pc_j>>

\* the variables of the functions modelled on their own
parsx == <<p_section, p_year, p_devices, pc_p>>

timex == <<t_stamp, t_unix, pc_t>>

basex == <<b_tree, b_devices, pc_b>>

units == <<enrx, entryx, joinx, parsx, timex, basex>>

vars == <<winx, linx, lincor, wincor, units>>

WinxOff ==
  /\ log_file_w = << >>
  /\ pos_w = 0
  /\ log_section = << >>
  /\ yielded_w = << >>
  /\ pc_w = "off"

LinxOff ==
  /\ log_file_l = << >>
  /\ pos_l = 0
  /\ section = << >>
  /\ yielded_l = << >>
  /\ pc_l = "off"

LincorOff ==
  /\ log_paths = << >>
  /\ file_ix = 0
  /\ year = 0
  /\ slot = 0
  /\ serial_number = None
  /\ connect_time = None
  /\ sections_read = 0
  /\ usb_devices_l = << >>
  /\ enrich_ix = 0
  /\ pc_c = "off"

WincorOff ==
  /\ usb_devices_w = << >>
  /\ enrich_ix_w = 0
  /\ time_dict = << >>
  /\ pc_v = "off"

EnrxOff ==
  /\ usb_devices_e = << >>
  /\ devices_in = << >>
  /\ enrich_ix_e = 0
  /\ lookups = << >>
  /\ calls = 0
  /\ pc_e = "off"

EntryxOff ==
  /\ mode = "off"
  /\ system = ""
  /\ privilege = ""
  /\ viewer = << >>
  /\ devices_m = << >>
  /\ printed = << >>
  /\ print_ix = 0
  /\ pc_m = "off"

JoinxOff ==
  /\ join_pass = ""
  /\ join_device = << >>
  /\ join_items = << >>
  /\ join_result = << >>
  /\ pc_j = "off"

ParsxOff ==
  /\ p_section = << >>
  /\ p_year = 0
  /\ p_devices = << >>
  /\ pc_p = "off"

TimexOff ==
  /\ t_stamp = << >>
  /\ t_unix = << >>
  /\ pc_t = "off"

BasexOff ==
  /\ b_tree = << >>
  /\ b_devices = << >>
  /\ pc_b = "off"

UnitsOff == EnrxOff /\ EntryxOff /\ JoinxOff /\ ParsxOff /\ TimexOff /\ BasexOff

(***************************************************************************)
(* parse_windows_log_file (src/PastUSB.py:68-87).                          *)
(* A line is known by what the code tests of it: whether it starts with    *)
(* '>>>' ("start"), with '<<<' ("end"), or with neither ("other").         *)
(* Lists of lines hold positions in the file, so that a line skipped or    *)
(* stored twice shows.                                                     *)
(***************************************************************************)
WinLineKinds == {"start", "end", "other"}

StartsWithStart(file, i) == file[i] = "start"

StartsWithEnd(file, i) == file[i] = "end"

\* An extractor without the lookahead: one '>>>' line opens a section and
\* one '<<<' line closes it.
WinBodySingleMarker(file, pos, sec) ==
  LET i == pos + 1
  IN  IF Len(sec) = 0 /\ StartsWithStart(file, i)
      THEN [section |-> <<i>>, pos |-> i, yield |-> None, raised |-> FALSE]
      ELSE IF Len(sec) > 0 /\ StartsWithEnd(file, i)
      THEN [section |-> << >>, pos |-> i,
            yield |-> Some(Append(sec, i)), raised |-> FALSE]
      ELSE [section |-> IF Len(sec) > 0 THEN Append(sec, i) ELSE sec,
            pos |-> i, yield |-> None, raised |-> FALSE]

\* The body of `for line in log_file` for the line at position pos + 1.
\* next(log_file) takes the following line from the same iterator; at the
\* end of the file it raises StopIteration, which a generator turns into
\* RuntimeError.  Result: the list, the iterator position, the section
\* yielded (if any) and whether the generator raised.
WinBody(file, pos, sec) ==
  LET i == pos + 1
      hasNext == i < Len(file)
      same == [section |-> sec, pos |-> i, yield |-> None, raised |-> FALSE]
      third(p) == [section |-> IF Len(sec) > 0 THEN Append(sec, i) ELSE sec,
                   pos |-> p, yield |-> None, raised |-> FALSE]
  IN  IF Len(sec) = 0 /\ StartsWithStart(file, i)
      THEN IF ~hasNext
           THEN [same EXCEPT !.raised = TRUE]
           ELSE IF StartsWithStart(file, i + 1)
                THEN [section |-> <<i, i + 1>>, pos |-> i + 1,
                      yield |-> None, raised |-> FALSE]
                ELSE third(i + 1)
      ELSE IF Len(sec) > 0 /\ StartsWithEnd(file, i)
      THEN IF ~hasNext
           THEN [same EXCEPT !.raised = TRUE]
           ELSE IF StartsWithEnd(file, i + 1)
                THEN [section |-> << >>, pos |-> i + 1,
                      yield |-> Some(sec \o <<i, i + 1>>), raised |-> FALSE]
                ELSE third(i + 1)
      ELSE third(i)

ParseWindowsLine ==
  /\ pc_w = "run"
  /\ pos_w < Len(log_file_w)
  /\ LET r == WinBody(log_file_w, pos_w, log_section)
     IN  /\ log_section' = r.section
         /\ pos_w' = r.pos
         /\ yielded_w' = IF IsSome(r.yield) THEN Append(yielded_w, Val(r.yield))
                         ELSE yielded_w
         /\ pc_w' = IF r.raised THEN "error" ELSE "run"
  /\ UNCHANGED <<log_file_w, linx, lincor, wincor, units>>

\* The list the k-th yield handed to the consumer, as it is now.  Line 83
\* yields the list log_section itself, not a copy, so every yielded
\* section is that one list, which line 84 clears and the later lines fill
\* again; yielded_w[k] is what it held at the yield.
YieldedListWindows(k) == log_section

\* The for loop finds the file exhausted: the generator returns.
ParseWindowsEnd ==
  /\ pc_w = "run"
  /\ pos_w = Len(log_file_w)
  /\ pc_w' = "done"
  /\ UNCHANGED <<log_file_w, pos_w, log_section, yielded_w, linx, lincor, wincor, units>>

InitWinExt ==
  /\ log_file_w \in SeqsUpTo(WinLineKinds, MaxWinLines)
  /\ pos_w = 0
  /\ log_section = << >>
  /\ yielded_w = << >>
  /\ pc_w = "run"
  /\ LinxOff
  /\ LincorOff
  /\ WincorOff
  /\ UnitsOff

NextWinExt == ParseWindowsLine \/ ParseWindowsEnd

SpecWinExt == InitWinExt /\ [][NextWinExt]_vars

(***************************************************************************)
(* parse_linux_log_file (src/PastUSB.py:159-174).                          *)
(* A line is known by the two substrings the code looks for:               *)
(* 'New USB device found' ("new"), 'Mounted /dev/sd' ("mount"), both       *)
(* ("both") or neither ("other").                                          *)
(***************************************************************************)
LinLineKinds == {"new", "mount", "both", "other"}

HasNewDevice(file, i) == file[i] \in {"new", "both"}

HasMounted(file, i) == file[i] \in {"mount", "both"}

\* Mutant: the announcement does not clear the open list.
LinRestartKeep(sec, i) == Append(sec, i)

\* What the branch for a 'New USB device found' line does to a non-empty
\* list: section.clear(); section.append(line).  Control then falls
\* through to the `if len(section) > 0` block below it.
LinRestart(sec, i) == << i >>

\* The body of `for line in log_file` for the line at position i.
LinBody(file, i, sec) ==
  IF HasNewDevice(file, i) /\ Len(sec) = 0
  THEN [section |-> <<i>>, yield |-> None]
  ELSE LET s1 == IF HasNewDevice(file, i) THEN LinRestart(sec, i) ELSE sec
       IN  IF Len(s1) > 0
           THEN LET s2 == Append(s1, i)
                IN  IF HasMounted(file, i)
                    THEN [section |-> << >>, yield |-> Some(s2)]
                    ELSE [section |-> s2, yield |-> None]
           ELSE [section |-> s1, yield |-> None]

ParseLinuxLine ==
  /\ pc_l = "run"
  /\ pos_l < Len(log_file_l)
  /\ LET r == LinBody(log_file_l, pos_l + 1, section)
     IN  /\ section' = r.section
         /\ yielded_l' = IF IsSome(r.yield) THEN Append(yielded_l, Val(r.yield))
                         ELSE yielded_l
  /\ pos_l' = pos_l + 1
  /\ UNCHANGED <<log_file_l, pc_l, winx, lincor, wincor, units>>

\* The list the k-th yield handed to the consumer, as it is now: line 173
\* yields the list section itself, which line 174 clears.
YieldedListLinux(k) == section

\* The for loop finds the file exhausted: the generator returns.
ParseLinuxEnd ==
  /\ pc_l = "run"
  /\ pos_l = Len(log_file_l)
  /\ pc_l' = "done"
  /\ UNCHANGED <<log_file_l, pos_l, section, yielded_l, winx, lincor, wincor, units>>

InitLinExt ==
  /\ log_file_l \in SeqsUpTo(LinLineKinds, MaxLinLines)
  /\ pos_l = 0
  /\ section = << >>
  /\ yielded_l = << >>
  /\ pc_l = "run"
  /\ WinxOff
  /\ LincorOff
  /\ WincorOff
  /\ UnitsOff

NextLinExt == ParseLinuxLine \/ ParseLinuxEnd

SpecLinExt == InitLinExt /\ [][NextLinExt]_vars

(***************************************************************************)
(* LinuxViewer (src/PastUSB.py:452-523).                                   *)
(*                                                                         *)
(* The log files: /var/log/syslog, syslog.1, syslog.2.gz, ... as logrotate *)
(* names them; a higher rotation number is an older file.  A path is the   *)
(* sequence of the character codes after the common prefix                 *)
(* '/var/log/syslog', which is all that sorted() compares.                 *)
(***************************************************************************)
Rotations == {1, 2, 10}

Digits(n) == IF n < 10 THEN <<48 + n>> ELSE <<48 + (n \div 10), 48 + (n % 10)>>

\* '' for syslog, '.1' for syslog.1, '.<n>.gz' for the compressed ones.
PathName(n) ==
  IF n = 0 THEN << >>
  ELSE IF n = 1 THEN <<46>> \o Digits(1)
  ELSE <<46>> \o Digits(n) \o <<46, 103, 122>>

\* Python's str order: by code of the first differing character, a proper
\* prefix first.
RECURSIVE StrLess(_, _)
StrLess(a, b) ==
  IF b = << >> THEN FALSE
  ELSE IF a = << >> THEN TRUE
  ELSE IF a[1] # b[1] THEN a[1] < b[1]
  ELSE StrLess(Tail(a), Tail(b))

\* sorted(paths, reverse=True), paths given by their rotation numbers.
RECURSIVE SortedReverse(_)
SortedReverse(S) ==
  IF S = {} THEN << >>
  ELSE LET m == CHOOSE x \in S : \A y \in S : ~StrLess(PathName(x), PathName(y))
       IN  <<m>> \o SortedReverse(S \ {m})

(***************************************************************************)
(* What the log files hold.  The sessions logged are in true order of      *)
(* time: an older file holds earlier sessions, a file holds its sessions   *)
(* in order.  Files of rotation 2 and more were last written the year      *)
(* before the newer ones.  A timestamp 'Mon dd hh:mm:ss' is a number       *)
(* growing with time.                                                      *)
(***************************************************************************)
Slots == {1, 2}

MaxSections == 3

OlderFiles(n) == Cardinality({m \in Rotations : m > n})

\* The timestamp text at the head of the section at place j of file n.
StampOf(n, j) == OlderFiles(n) * Cardinality(Slots) + j

\* datetime.fromtimestamp(os.stat(filepath).st_mtime).year
FileLastModificationYear(n) == IF n >= 2 THEN 1 ELSE 2

YearSpan == Cardinality(Rotations) * Cardinality(Slots) + 1

\* The devices plugged in, as the kernel logs them: the words after each
\* label and the size after the ']' of the 'logical blocks' line.  The
\* second one has no Manufacturer string and logs no 'logical blocks' line.
UsbSticks ==
  { [idVendor |-> "0781", idProduct |-> "5567", bcdDevice |-> "1.00",
     product |-> Some(<<"Cruzer", "Blade">>), manufacturer |-> Some(<<"SanDisk">>),
     direct |-> Some(<<"SanDisk", "Cruzer">>), blocks |-> Some("15.4GB")],
    [idVendor |-> "0951", idProduct |-> "1666", bcdDevice |-> "1.10",
     product |-> Some(<<"DataTraveler">>), manufacturer |-> None,
     direct |-> Some(<<"Kingston", "DT">>), blocks |-> None] }

\* The text after 'SerialNumber:' in the section, or no such line at all.
SerialTexts == {None, Some(<<"S1">>), Some(<<"S2">>), Some(<<"SN", "S1">>), Some(<< >>)}

IdTypes == {"idVendor", "idProduct", "bcdDevice"}

InfoTypes == {"Product:", "Manufacturer:", "Direct-Access"}

\* What a section may lack on top of that: the hostname in its first line,
\* an id in its first line, the text after a label, the ']' of the
\* 'logical blocks' line.
Defects ==
  {[kind |-> "none", what |-> ""]}
  \cup {[kind |-> "missing", what |-> x] : x \in {"hostname"} \cup IdTypes}
  \cup {[kind |-> "empty", what |-> x] : x \in InfoTypes}
  \cup {[kind |-> "nobracket", what |-> "logical blocks"]}

\* A section as the parsers of LinuxViewer read it: section[0] (hostname,
\* timestamp, ids), for each label the words after it in the first line
\* that has it (None: no line has it), and the 'logical blocks' line.
MkSection(stick, serialText, stamp, defect) ==
  LET lacks(x) == defect.kind = "missing" /\ defect.what = x
      words(x) == IF x = "Product:" THEN stick.product
                  ELSE IF x = "Manufacturer:" THEN stick.manufacturer
                  ELSE stick.direct
      idtext(x) == IF x = "idVendor" THEN stick.idVendor
                   ELSE IF x = "idProduct" THEN stick.idProduct
                   ELSE stick.bcdDevice
  IN  [ hostname |-> ~lacks("hostname"),
        stamp |-> stamp,
        id |-> [x \in IdTypes |-> IF lacks(x) THEN None ELSE Some(idtext(x))],
        info |-> [x \in InfoTypes \cup {"SerialNumber:"} |->
                    IF x = "SerialNumber:" THEN serialText
                    ELSE IF words(x) = None THEN None
                    ELSE IF defect.kind = "empty" /\ defect.what = x THEN Some(<< >>)
                    ELSE words(x)],
        blocks |-> IF stick.blocks = None THEN None
                   ELSE Some([bracket |-> defect.kind # "nobracket",
                              text |-> Val(stick.blocks)]) ]

SectionsAt(n, j) ==
  {MkSection(stick, st, StampOf(n, j), d) :
     stick \in UsbSticks, st \in SerialTexts, d \in Defects}

\* The result of a call: an exception raised, or a value returned.
Raise == [raised |-> TRUE, value |-> None]

Ret(v) == [raised |-> FALSE, value |-> v]

\* __get_device_connect_time: string.index(hostname) raises ValueError when
\* the hostname is not in the line; the year is put before the timestamp.
GetDeviceConnectTime(sec, y) ==
  IF ~sec.hostname THEN Raise ELSE Ret(y * YearSpan + sec.stamp)

\* __get_device_id_by_type: string.index(id_type) raises ValueError when the
\* id is not in the line.
GetDeviceIdByType(sec, id_type) ==
  IF sec.id[id_type] = None THEN Raise ELSE Ret(Some(Val(sec.id[id_type])))

\* __get_device_info_from_section: None when no line has the label;
\* otherwise line[...].split(maxsplit=1)[-1]: IndexError when nothing
\* follows the label, the one word when one follows, the text after the
\* first word when more follow.
GetDeviceInfoFromSection(sec, info_type) ==
  LET text == sec.info[info_type]
  IN  IF text = None THEN Ret(None)
      ELSE IF Len(Val(text)) = 0 THEN Raise
      ELSE IF Len(Val(text)) = 1 THEN Ret(Some(Val(text)))
      ELSE Ret(Some(Tail(Val(text))))

\* __get_device_size: None without a 'logical blocks' line; line.rindex(']')
\* raises ValueError when the line has no ']'.
GetDeviceSize(sec) ==
  IF sec.blocks = None THEN Ret(None)
  ELSE IF ~Val(sec.blocks).bracket THEN Raise
  ELSE Ret(Some(Val(sec.blocks).text))

\* Mutant: the lookup never finds a device.
GetDeviceIfExistNever(usb_devices, sn) == 0

\* __get_device_if_exist: the index of the first device whose serial_number
\* == serial_number (None == None is True), 0 for None.
GetDeviceIfExist(usb_devices, sn) ==
  LET found == {i \in 1..Len(usb_devices) : usb_devices[i].serial_number = sn}
  IN  IF found = {} THEN 0 ELSE CHOOSE i \in found : \A k \in found : i <= k

\* Mutant: a known device also takes the size of the new section.
KnownDeviceAlsoSize(device, ct, sec) ==
  [device EXCEPT !.last_connect_date = Some(ct),
                 !.device_size = GetDeviceSize(sec).value]

\* Lines 465-467: device.last_connect_date = connect_time.
KnownDevice(device, ct, sec) ==
  [device EXCEPT !.last_connect_date = Some(ct)]

\* USBDeviceLinux(serial_number=..., first_connect_date=connect_time,
\* last_connect_date=connect_time), the other fields None.
USBDeviceLinux(sn, ct) ==
  [ version |-> None, serial_number |-> sn, friendly_name |-> None,
    vendor_id |-> None, product_id |-> None,
    first_connect_date |-> Some(ct),
    last_connect_date |-> Some(ct),
    vendor_name |-> None, product_description |-> None,
    syslog_manufacturer |-> None, syslog_product |-> None,
    device_size |-> None ]

\* The body of the loop of __get_base_device_info for one (section, year):
\* the list after it, or an exception out of one of the parsers.
BaseDeviceInfoBody(usb_devices, sec, y) ==
  LET sn == GetDeviceInfoFromSection(sec, "SerialNumber:")
      ct == GetDeviceConnectTime(sec, y)
      result(r) == [raised |-> r.raised, value |-> r.value,
                    locals |-> [serial_number |-> sn, connect_time |-> ct]]
  IN  result(
      IF sn.raised \/ ct.raised THEN Raise
      ELSE
      LET i == GetDeviceIfExist(usb_devices, sn.value)
      IN  IF i # 0
          THEN Ret([usb_devices EXCEPT
                      ![i] = KnownDevice(usb_devices[i], ct.value, sec)])
          ELSE
          LET vendor_id == GetDeviceIdByType(sec, "idVendor")
              product_id == GetDeviceIdByType(sec, "idProduct")
              version == GetDeviceIdByType(sec, "bcdDevice")
              syslog_product == GetDeviceInfoFromSection(sec, "Product:")
              syslog_manufacturer == GetDeviceInfoFromSection(sec, "Manufacturer:")
              friendly_name == GetDeviceInfoFromSection(sec, "Direct-Access")
              device_size == GetDeviceSize(sec)
          IN  IF \/ vendor_id.raised \/ product_id.raised \/ version.raised
                 \/ syslog_product.raised \/ syslog_manufacturer.raised
                 \/ friendly_name.raised \/ device_size.raised
              THEN Raise
              ELSE Ret(Append(usb_devices,
                     [USBDeviceLinux(sn.value, ct.value)
                        EXCEPT !.vendor_id = vendor_id.value,
                               !.product_id = product_id.value,
                               !.version = version.value,
                               !.syslog_product = syslog_product.value,
                               !.syslog_manufacturer = syslog_manufacturer.value,
                               !.friendly_name = friendly_name.value,
                               !.device_size = device_size.value])))

\* __get_log_sections moves to the next path of the sorted list.
NextLogFile ==
  /\ pc_c = "scan"
  /\ file_ix < Len(log_paths)
  /\ file_ix' = file_ix + 1
  /\ year' = FileLastModificationYear(log_paths[file_ix + 1])
  /\ slot' = 0
  /\ UNCHANGED <<log_paths, serial_number, connect_time, sections_read, usb_devices_l,
                 enrich_ix, pc_c, winx, linx, wincor, units>>

\* One iteration of the loop of __get_base_device_info: the next section of
\* the file being read.
ScanSection ==
  /\ pc_c = "scan"
  /\ file_ix >= 1
  /\ sections_read < MaxSections
  /\ \E j \in {k \in Slots : k > slot} :
       \E sec \in SectionsAt(log_paths[file_ix], j) :
         LET r == BaseDeviceInfoBody(usb_devices_l, sec, year)
         IN  /\ slot' = j
             /\ serial_number' = IF r.locals.serial_number.raised THEN serial_number
                                 ELSE r.locals.serial_number.value
             /\ connect_time' = IF r.locals.serial_number.raised
                                   \/ r.locals.connect_time.raised
                                THEN connect_time
                                ELSE Some(r.locals.connect_time.value)
             /\ usb_devices_l' = IF r.raised THEN usb_devices_l ELSE r.value
             /\ pc_c' = IF r.raised THEN "raised" ELSE "scan"
  /\ sections_read' = sections_read + 1
  /\ UNCHANGED <<log_paths, file_ix, year, enrich_ix, winx, linx, wincor, units>>

\* The last file is exhausted: __get_base_device_info returns the list, and
\* its locals and the generator of __get_log_sections are gone.
ScanEnd ==
  /\ pc_c = "scan"
  /\ file_ix = Len(log_paths)
  /\ pc_c' = "enrich"
  /\ log_paths' = << >>
  /\ file_ix' = 0
  /\ year' = 0
  /\ slot' = 0
  /\ serial_number' = None
  /\ connect_time' = None
  /\ sections_read' = 0
  /\ UNCHANGED <<usb_devices_l, enrich_ix, winx, linx, wincor, units>>

(***************************************************************************)
(* Enrichment: get_device_info_from_web (src/PastUSB.py:101-124) and       *)
(* BaseViewer._set_devices_info (266-272).                                 *)
(* What urlopen/read/decode do is the environment's choice: URLError (or   *)
(* its subclass HTTPError), another exception (a timeout or a reset while  *)
(* reading, UnicodeDecodeError), or a page.  A page is known by the text   *)
(* found after its '--type-vendor' and '--type-device' markers, None for   *)
(* a marker that is not in the page.                                       *)
(***************************************************************************)
Pages ==
  { [type_vendor |-> Some("vendor name"), type_device |-> Some("device description")],
    [type_vendor |-> None, type_device |-> None] }

\* The html the except clause of line 108-109 puts in place of the page.
ErrorHtml == [type_vendor |-> None, type_device |-> None]

WebOutcomes ==
  {[kind |-> "URLError", html |-> ErrorHtml], [kind |-> "exception", html |-> ErrorHtml]}
  \cup {[kind |-> "page", html |-> h] : h \in Pages}

\* get_device_info_from_web with the default max_attempts = 3.
GetDeviceInfoFromWeb(outcome) ==
  IF outcome.kind = "exception" THEN Raise
  ELSE LET html == IF outcome.kind = "URLError" THEN ErrorHtml ELSE outcome.html
       IN  Ret([vendor_name |-> html.type_vendor,
                device_description |-> html.type_device])

\* Mutant: the lookup is made for every device.
LooksUpAlways(device) == TRUE

\* Line 269: the condition under which _set_devices_info calls
\* get_device_info_from_web for a device.
LooksUp(device) == device.vendor_id # None /\ device.product_id # None

\* The body of the loop of _set_devices_info for one device.
SetDevicesInfoBody(device, outcome) ==
  IF LooksUp(device)
  THEN LET r == GetDeviceInfoFromWeb(outcome)
       IN  IF r.raised THEN Raise
           ELSE Ret([device EXCEPT
                       !.vendor_name = r.value.vendor_name,
                       !.product_description = r.value.device_description])
  ELSE Ret(device)

\* LinuxViewer.get_usb_devices, line 457: one iteration of the loop of
\* _set_devices_info.
EnrichLinuxDevice ==
  /\ pc_c = "enrich"
  /\ enrich_ix < Len(usb_devices_l)
  /\ \E outcome \in WebOutcomes :
       LET r == SetDevicesInfoBody(usb_devices_l[enrich_ix + 1], outcome)
       IN  /\ usb_devices_l' = IF r.raised THEN usb_devices_l
                               ELSE [usb_devices_l EXCEPT ![enrich_ix + 1] = r.value]
           /\ pc_c' = IF r.raised THEN "raised" ELSE "enrich"
  /\ enrich_ix' = enrich_ix + 1
  /\ UNCHANGED <<log_paths, file_ix, year, slot, serial_number, connect_time, sections_read,
                 winx, linx, wincor, units>>

\* LinuxViewer.get_usb_devices, line 458: return usb_devices.
ReturnLinuxDevices ==
  /\ pc_c = "enrich"
  /\ enrich_ix = Len(usb_devices_l)
  /\ pc_c' = "done"
  /\ UNCHANGED <<log_paths, file_ix, year, slot, serial_number, connect_time, sections_read,
                 usb_devices_l, enrich_ix, winx, linx, wincor, units>>

InitLinux ==
  /\ log_paths \in {SortedReverse(S) : S \in SUBSET Rotations}
  /\ file_ix = 0
  /\ year = 0
  /\ slot = 0
  /\ serial_number = None
  /\ connect_time = None
  /\ sections_read = 0
  /\ usb_devices_l = << >>
  /\ enrich_ix = 0
  /\ pc_c = "scan"
  /\ WinxOff
  /\ LinxOff
  /\ WincorOff
  /\ UnitsOff

NextLinux ==
  \/ NextLogFile
  \/ ScanSection
  \/ ScanEnd
  \/ EnrichLinuxDevice
  \/ ReturnLinuxDevices

SpecLinux == InitLinux /\ [][NextLinux]_vars

(***************************************************************************)
(* convert_windows_time_to_unix (src/PastUSB.py:48-51).                    *)
(*                                                                         *)
(* A Windows timestamp V counts ticks of 100 ns since 1601.  It is written *)
(* here as [unix |-> u, ticks |-> r] with 0 <= r < windows_tick, for       *)
(*     V = (seconds_to_unix_epoch + u) * windows_tick + r,                 *)
(* seconds_to_unix_epoch = 11644473600 (line 50) being beyond the integers *)
(* of the checker.  Line 51 computes in floating point:                    *)
(*     int(windows_timestamp / windows_tick - seconds_to_unix_epoch).      *)
(* The quotient of two ints is the double nearest to the true quotient.    *)
(* For every u that is a 32-bit integer the quotient lies between 2^33 and *)
(* 2^34, where the doubles are the multiples of 2^-19; subtracting the     *)
(* integer seconds_to_unix_epoch from such a double is exact, and int()    *)
(* drops the fraction towards zero.                                        *)
(***************************************************************************)
windows_tick == 10000000

\* The number of doubles per unit between 2^33 and 2^34: 2^19.
DoublesPerSecond == 524288

\* The fraction r / windows_tick rounded to the nearest multiple of 2^-19,
\* as the number of such multiples (no r is half-way between two).  Both
\* numbers are divided by their common factor 128 first.
NearestDouble(r) ==
  LET tick == windows_tick \div 128
      steps == DoublesPerSecond \div 128
  IN  (r \div tick) * steps + (2 * (r % tick) * steps + tick) \div (2 * tick)

ConvertWindowsTimeToUnix(windows_timestamp) ==
  LET u == windows_timestamp.unix
      fraction == NearestDouble(windows_timestamp.ticks)
  IN  IF fraction = DoublesPerSecond THEN u + 1
      ELSE IF u >= 0 \/ fraction = 0 THEN u
      ELSE u + 1

(***************************************************************************)
(* WindowsViewer (src/PastUSB.py:296-437).                                 *)
(*                                                                         *)
(* Texts on which the code does string work (registry key names, value     *)
(* data, log lines) are sequences of pieces: the separators '&', '_',      *)
(* '\', '{' and the pieces of text between them, a serial number being     *)
(* spelt character by character.  `x in s`, split, replace and slicing     *)
(* work on these sequences as Python's do on the characters.               *)
(***************************************************************************)
\* needle in hay
Contains(hay, needle) ==
  \E i \in 0..(Len(hay) - Len(needle)) : SubSeq(hay, i + 1, i + Len(needle)) = needle

\* s.split(sep)
RECURSIVE Split(_, _)
Split(s, sep) ==
  LET at == {i \in 1..Len(s) : s[i] = sep}
  IN  IF at = {} THEN << s >>
      ELSE LET i == CHOOSE k \in at : \A m \in at : k <= m
           IN  << SubSeq(s, 1, i - 1) >> \o Split(SubSeq(s, i + 1, Len(s)), sep)

\* s.replace(old, '')
RECURSIVE Replace(_, _)
Replace(s, old) ==
  IF Len(s) < Len(old) THEN s
  ELSE IF SubSeq(s, 1, Len(old)) = old
       THEN Replace(SubSeq(s, Len(old) + 1, Len(s)), old)
       ELSE << s[1] >> \o Replace(Tail(s), old)

\* s[s.index(piece):], for a piece that is in s
FromIndex(s, piece) ==
  LET i == CHOOSE k \in 1..Len(s) : s[k] = piece /\ \A m \in 1..(k - 1) : s[m] # piece
  IN  SubSeq(s, i, Len(s))

\* USBDeviceWindows(usbstor_vendor=..., ...), the other fields None.
USBDeviceWindows(vendor, product, version, sn, friendly_name, parent_prefix_id) ==
  [ version |-> Some(version), serial_number |-> Some(sn),
    friendly_name |-> friendly_name, vendor_id |-> None, product_id |-> None,
    first_connect_date |-> None, last_connect_date |-> None,
    vendor_name |-> None, product_description |-> None,
    usbstor_vendor |-> Some(vendor), usbstor_product |-> Some(product),
    parent_prefix_id |-> Some(parent_prefix_id), guid |-> None,
    drive_letter |-> None ]

\* __parse_device_name: None unless the name has four '&'-separated fields
\* the first of which is 'Disk'.
ParseDeviceName(device_name) ==
  LET name_split == Split(device_name, "&")
  IN  IF Len(name_split) # 4 \/ name_split[1] # <<"Disk">> THEN None
      ELSE Some([vendor |-> Replace(name_split[2], <<"Ven", "_">>),
                 product |-> Replace(name_split[3], <<"Prod", "_">>),
                 version |-> Replace(name_split[4], <<"Rev", "_">>)])

(***************************************************************************)
(* The USBSTOR tree: keys named after a device model, each with one        *)
(* subkey per device instance, named '<serial>&<n>'.                       *)
(***************************************************************************)
UsbstorKeyNames ==
  { <<"Disk", "&", "Ven", "_", "Kingston", "&", "Prod", "_", "DataTraveler",
      "&", "Rev", "_", "1.00">>,
    <<"Disk", "&", "Ven", "_", "Kingston", "&", "Prod", "_", "DataTraveler",
      "&", "Rev", "_", "PMAP">>,
    <<"CdRom", "&", "Ven", "_", "HL-DT", "&", "Prod", "_", "DVDRAM",
      "&", "Rev", "_", "1.0">> }

\* Device instance subkeys with their values (a value not in the key is
\* None).  The second is another unit of the device with serial 12, the
\* third a device whose serial number starts with that of the first.
UsbstorDeviceKeys ==
  { [name |-> <<"1", "2", "&", "0">>,
     FriendlyName |-> Some("Kingston DataTraveler USB Device"),
     ParentPrefixId |-> None],
    [name |-> <<"1", "2", "&", "1">>,
     FriendlyName |-> Some("Kingston DataTraveler USB Device"),
     ParentPrefixId |-> None],
    [name |-> <<"1", "2", "3", "&", "0">>,
     FriendlyName |-> None,
     ParentPrefixId |-> Some(<<"8", "&", "a">>)] }

MaxUsbstorDevices == 2

RECURSIVE DistinctSeqs(_, _)
\* the sequences without repetition of at most n elements of S
DistinctSeqs(S, n) ==
  IF n = 0 \/ S = {} THEN {<< >>}
  ELSE {<< >>} \cup UNION { {<<x>> \o s : s \in DistinctSeqs(S \ {x}, n - 1)} : x \in S }

RECURSIVE TreesOf(_, _)
\* the trees with keys named from `names` and at most n device subkeys
TreesOf(names, n) ==
  {<< >>} \cup
  UNION { { <<[name |-> name, devices |-> devices]>> \o rest :
              rest \in TreesOf(names \ {name}, n - Len(devices)) } :
          name \in names, devices \in DistinctSeqs(UsbstorDeviceKeys, n) }

\* The trees winreg may enumerate: the keys in any order, each with its
\* device subkeys in any order.
UsbstorTrees == TreesOf(UsbstorKeyNames, MaxUsbstorDevices)

\* The records of the device subkeys of one USBSTOR key (lines 329-346).
DevicesOfKey(attrs, devices) ==
  [ i \in 1..Len(devices) |->
      USBDeviceWindows(attrs.vendor, attrs.product, attrs.version,
                       Split(devices[i].name, "&")[1],
                       devices[i].FriendlyName,
                       IF devices[i].ParentPrefixId # None
                       THEN Val(devices[i].ParentPrefixId)
                       ELSE devices[i].name) ]

\* __get_base_device_info for a USBSTOR tree.
RECURSIVE BaseDeviceInfo(_)
BaseDeviceInfo(tree) ==
  IF tree = << >> THEN << >>
  ELSE LET device_attributes == ParseDeviceName(tree[1].name)
       IN  (IF device_attributes = None THEN << >>
            ELSE DevicesOfKey(Val(device_attributes), tree[1].devices))
           \o BaseDeviceInfo(Tail(tree))

\* A dict as the sequence of its items in insertion order; d[k] = v.
DictSet(d, k, v) ==
  IF \E i \in 1..Len(d) : d[i].key = k
  THEN [i \in 1..Len(d) |-> IF d[i].key = k THEN [key |-> k, value |-> v] ELSE d[i]]
  ELSE Append(d, [key |-> k, value |-> v])

\* Mutant: the first matching item wins.
FirstHit(at) == CHOOSE i \in at : \A k \in at : i <= k

\* The last of the positions `at` of a list: a loop
\* `for item in items: if match(item): device.field = value(item)` leaves
\* in the field the value of the last matching item, and the field as it
\* was when no item matches.
LastHit(at) == CHOOSE i \in at : \A k \in at : k <= i

(***************************************************************************)
(* __set_vendor_and_product_ids (lines 348-364).  The USB tree: one key    *)
(* per device id, its subkeys named after the serial numbers.              *)
(***************************************************************************)
UsbIdKingston == <<"VID", "_", "0951", "&", "PID", "_", "1666">>

UsbIdSanDisk == <<"VID", "_", "0781", "&", "PID", "_", "5567">>

UsbTrees ==
  { << >>,
    << [id |-> UsbIdKingston, subkeys |-> << <<"1", "2">> >>] >>,
    << [id |-> <<"ROOT", "_", "HUB30">>, subkeys |-> << <<"4", "&", "a">> >>],
       [id |-> UsbIdSanDisk, subkeys |-> << <<"1", "2", "3">>, <<"1", "2">> >>] >>,
    << [id |-> UsbIdKingston, subkeys |-> << <<"1", "2">> >>],
       [id |-> UsbIdSanDisk, subkeys |-> << <<"1", "2">> >>] >>,
    << [id |-> UsbIdKingston, subkeys |-> << >>] >> }

\* Lines 351-357: device_dict, or IndexError out of
\* self.__get_registry_keys(device_key)[0] for a key without subkeys.
RECURSIVE DeviceDict(_, _)
DeviceDict(device_ids, device_dict) ==
  IF device_ids = << >> THEN Ret(device_dict)
  ELSE LET e == device_ids[1]
       IN  IF ~Contains(e.id, <<"VID">>) \/ ~Contains(e.id, <<"PID">>)
           THEN DeviceDict(Tail(device_ids), device_dict)
           ELSE IF e.subkeys = << >> THEN Raise
           ELSE DeviceDict(Tail(device_ids), DictSet(device_dict, e.subkeys[1], e.id))

\* Lines 358-364 for one device.
SetVendorAndProductId(device, device_dict) ==
  LET at == {i \in 1..Len(device_dict) : device.serial_number = Some(device_dict[i].key)}
      device_info == Split(device_dict[LastHit(at)].value, "&")
  IN  IF at = {} THEN device
      ELSE [device EXCEPT
              !.vendor_id = Some(Replace(device_info[1], <<"VID", "_">>)),
              !.product_id = Some(Replace(device_info[2], <<"PID", "_">>))]

SetVendorAndProductIds(usb_devices, usb_tree) ==
  LET device_dict == DeviceDict(usb_tree, << >>)
  IN  IF device_dict.raised THEN Raise
      ELSE Ret([i \in 1..Len(usb_devices) |->
                  SetVendorAndProductId(usb_devices[i], device_dict.value)])

(***************************************************************************)
(* __set_guids (lines 365-375).  MountedDevices: value names              *)
(* '\??\Volume{guid}' and '\DosDevices\X:', the data being the device     *)
(* path in UTF-16 (every other byte zero) or, for fixed disks, raw bytes.  *)
(***************************************************************************)
\* The bytes of a text in UTF-16LE.
RECURSIVE Utf16(_)
Utf16(s) == IF s = << >> THEN << >> ELSE <<s[1], "\\0">> \o Utf16(Tail(s))

\* convert_binary_to_ascii_string: the bytes b with 0 < b < 128.
ConvertBinaryToAsciiString(binary_string) ==
  SelectSeq(binary_string, LAMBDA byte : byte \notin {"\\0", "\\x80"})

VolumeName(g) == <<"\\", "??", "\\", "Volume", "{", g, "}">>

MountedDevices ==
  { << >>,
    << [key |-> VolumeName("g1"), value |-> Utf16(<<"#", "1", "2", "&", "0", "#">>)],
       [key |-> <<"\\", "DosDevices", "\\", "E:">>,
        value |-> Utf16(<<"#", "1", "2", "&", "0", "#">>)] >>,
    << [key |-> VolumeName("g1"), value |-> Utf16(<<"#", "1", "2", "&", "0", "#">>)],
       [key |-> VolumeName("g2"), value |-> Utf16(<<"#", "8", "&", "a", "#">>)],
       [key |-> VolumeName("g3"), value |-> <<"\\x80", "1", "\\0", "\\x80">>] >>,
    << [key |-> VolumeName("g2"), value |-> Utf16(<<"#", "1", "2", "&", "1", "#">>)],
       [key |-> VolumeName("g3"), value |-> Utf16(<<"#", "1", "2", "&", "1", "#">>)] >> }

\* Lines 369-375 for one device.
SetGuid(device, registry_values) ==
  LET at == {i \in 1..Len(registry_values) :
               /\ Contains(ConvertBinaryToAsciiString(registry_values[i].value),
                           Val(device.parent_prefix_id))
               /\ Contains(registry_values[i].key, <<"\\", "Volume">>)}
  IN  IF at = {} THEN device
      ELSE [device EXCEPT !.guid = Some(FromIndex(registry_values[LastHit(at)].key, "{"))]

SetGuids(usb_devices, registry_values) ==
  [i \in 1..Len(usb_devices) |-> SetGuid(usb_devices[i], registry_values)]

(***************************************************************************)
(* __set_drive_letters (lines 376-385).  Windows Portable Devices: keys    *)
(* named after the device path, with a FriendlyName value.                 *)
(***************************************************************************)
PortableDevices ==
  { << >>,
    << [key |-> <<"#", "1", "2", "&", "0", "#">>, FriendlyName |-> Some("E:\\")] >>,
    << [key |-> <<"#", "1", "2", "&", "0", "#">>, FriendlyName |-> Some("KINGSTON")],
       [key |-> <<"#", "1", "2", "&", "1", "#">>, FriendlyName |-> None],
       [key |-> <<"#", "8", "&", "a", "#">>, FriendlyName |-> Some("F:\\")] >> }

\* Mutant: the FriendlyName of the matching key goes into friendly_name.
SetDriveLetterAsFriendlyName(device, registry_keys) ==
  LET at == {i \in 1..Len(registry_keys) :
               Contains(registry_keys[i].key, Val(device.parent_prefix_id))}
  IN  IF at = {} THEN device
      ELSE [device EXCEPT !.friendly_name = registry_keys[LastHit(at)].FriendlyName]

\* Lines 380-385 for one device.
SetDriveLetter(device, registry_keys) ==
  LET at == {i \in 1..Len(registry_keys) :
               Contains(registry_keys[i].key, Val(device.parent_prefix_id))}
  IN  IF at = {} THEN device
      ELSE [device EXCEPT !.drive_letter = registry_keys[LastHit(at)].FriendlyName]

SetDriveLetters(usb_devices, registry_keys) ==
  [i \in 1..Len(usb_devices) |-> SetDriveLetter(usb_devices[i], registry_keys)]

(***************************************************************************)
(* __set_first_connect_dates (lines 386-400).  What parse_windows_log_file *)
(* yields over the setupapi.dev*.log files: of each section its first      *)
(* line, the time strptime reads in its last but one line (None when the   *)
(* line does not hold one) and its last line.                              *)
(***************************************************************************)
InstallLine(serial) ==
  <<"[", "Device Install ", "USBSTOR", "\\", "Disk", "\\">> \o serial \o <<"&", "0", "]">>

LogSections ==
  { [first |-> InstallLine(<<"1", "2">>), time |-> Some(5), last |-> <<"SUCCESS">>],
    [first |-> InstallLine(<<"1", "2">>), time |-> Some(6), last |-> <<"SUCCESS">>],
    [first |-> InstallLine(<<"1", "2", "3">>), time |-> Some(7), last |-> <<"SUCCESS">>],
    [first |-> InstallLine(<<"1", "2">>), time |-> Some(8), last |-> <<"FAILURE">>],
    [first |-> <<"[", "Delete Driver Package", "]">>, time |-> Some(8), last |-> <<"SUCCESS">>],
    [first |-> InstallLine(<<"1", "2">>), time |-> None, last |-> <<"SUCCESS">>] }

MaxLogSections == 2

\* The sections of the files in the order of the two loops of lines
\* 389-390, and whether the generator then fails (RuntimeError, when a
\* file ends after a lone marker line).
SetupApiLogs ==
  [sections : SeqsUpTo(LogSections, MaxLogSections), fails : BOOLEAN]

\* Lines 388-396: time_dict, or the error of strptime or of the generator.
RECURSIVE TimeDict(_, _, _)
TimeDict(sections, fails, dict) ==
  IF sections = << >> THEN (IF fails THEN Raise ELSE Ret(dict))
  ELSE LET s == sections[1]
       IN  IF Contains(s.first, <<"Device Install ">>) /\ Contains(s.last, <<"SUCCESS">>)
           THEN IF s.time = None THEN Raise
                ELSE TimeDict(Tail(sections), fails, DictSet(dict, s.first, Val(s.time)))
           ELSE TimeDict(Tail(sections), fails, dict)

\* Lines 398-400 for one device.
SetFirstConnectDate(device, items) ==
  LET at == {i \in 1..Len(items) : Contains(items[i].key, Val(device.serial_number))}
  IN  IF at = {} THEN device
      ELSE [device EXCEPT !.first_connect_date = Some(items[LastHit(at)].value)]

(***************************************************************************)
(* __set_last_connect_dates (lines 401-410).  MountPoints2: one key per    *)
(* mount point, with its last write time (QueryInfoKey(key)[2]).           *)
(***************************************************************************)
MountPoints ==
  { << >>,
    << [name |-> <<"{", "g1", "}">>, last_write |-> [unix |-> 9, ticks |-> 0]] >>,
    << [name |-> <<"E">>, last_write |-> [unix |-> 4, ticks |-> 5000000]],
       [name |-> <<"{", "g2", "}">>, last_write |-> [unix |-> 2, ticks |-> 9999995]],
       [name |-> <<"{", "g1", "}">>, last_write |-> [unix |-> 9, ticks |-> 0]] >> }

\* __get_registry_timestamp: the last write time of the key, converted.
GetRegistryTimestamp(key) == ConvertWindowsTimeToUnix(key.last_write)

\* Mutant: the timestamp of the last key, whatever the guid of the device.
SetLastConnectDateAnyGuid(device, guids) ==
  IF guids = << >> THEN device
  ELSE [device EXCEPT !.last_connect_date = Some(GetRegistryTimestamp(guids[Len(guids)]))]

\* Mutant: the timestamp of the first key, for a device without a guid too.
SetLastConnectDateFirstKey(device, guids) ==
  IF guids = << >> THEN device
  ELSE [device EXCEPT !.last_connect_date = Some(GetRegistryTimestamp(guids[1]))]

\* Lines 405-410 for one device.
SetLastConnectDate(device, guids) ==
  LET at == {i \in 1..Len(guids) : device.guid = Some(guids[i].name)}
  IN  IF at = {} THEN device
      ELSE [device EXCEPT !.last_connect_date = Some(GetRegistryTimestamp(guids[LastHit(at)]))]

(***************************************************************************)
(* WindowsViewer.get_usb_devices (lines 308-316), one action per pass.     *)
(* winreg.OpenKey raises FileNotFoundError for a key that does not exist.  *)
(***************************************************************************)
\* What OpenKey may find where the trees of S can be: None for no key.
OpenKey(S) == {None} \cup {Some(k) : k \in S}

\* Line 309.
GetBaseDeviceInfo ==
  /\ pc_v = "base"
  /\ \E tree_key \in OpenKey(UsbstorTrees) :
       IF tree_key = None
       THEN pc_v' = "raised" /\ UNCHANGED usb_devices_w
       ELSE pc_v' = "ids" /\ usb_devices_w' = BaseDeviceInfo(Val(tree_key))
  /\ UNCHANGED <<enrich_ix_w, time_dict, winx, linx, lincor, units>>

\* Line 310.
SetVendorAndProductIdsPass ==
  /\ pc_v = "ids"
  /\ \E usb_tree_key \in OpenKey(UsbTrees) :
       LET r == IF usb_tree_key = None THEN Raise
                ELSE SetVendorAndProductIds(usb_devices_w, Val(usb_tree_key))
       IN  IF r.raised
           THEN pc_v' = "raised" /\ UNCHANGED usb_devices_w
           ELSE pc_v' = "guids" /\ usb_devices_w' = r.value
  /\ UNCHANGED <<enrich_ix_w, time_dict, winx, linx, lincor, units>>

\* Line 311.
SetGuidsPass ==
  /\ pc_v = "guids"
  /\ \E registry_values_key \in OpenKey(MountedDevices) :
       IF registry_values_key = None
       THEN pc_v' = "raised" /\ UNCHANGED usb_devices_w
       ELSE pc_v' = "letters" /\ usb_devices_w' = SetGuids(usb_devices_w, Val(registry_values_key))
  /\ UNCHANGED <<enrich_ix_w, time_dict, winx, linx, lincor, units>>

\* Line 312.
SetDriveLettersPass ==
  /\ pc_v = "letters"
  /\ \E registry_keys_key \in OpenKey(PortableDevices) :
       IF registry_keys_key = None
       THEN pc_v' = "raised" /\ UNCHANGED usb_devices_w
       ELSE pc_v' = "logs" /\ usb_devices_w' = SetDriveLetters(usb_devices_w, Val(registry_keys_key))
  /\ UNCHANGED <<enrich_ix_w, time_dict, winx, linx, lincor, units>>

\* Line 313, the loops of lines 388-396.
ReadSetupApiLogs ==
  /\ pc_v = "logs"
  /\ \E logs \in SetupApiLogs :
       LET r == TimeDict(logs.sections, logs.fails, << >>)
       IN  IF r.raised
           THEN pc_v' = "raised" /\ UNCHANGED time_dict
           ELSE pc_v' = "first" /\ time_dict' = r.value
  /\ UNCHANGED <<usb_devices_w, enrich_ix_w, winx, linx, lincor, units>>

\* Line 313, the loop of lines 397-400.
SetFirstConnectDates ==
  /\ pc_v = "first"
  /\ usb_devices_w' = [i \in 1..Len(usb_devices_w) |->
                         SetFirstConnectDate(usb_devices_w[i], time_dict)]
  /\ time_dict' = << >>
  /\ pc_v' = "last"
  /\ UNCHANGED <<enrich_ix_w, winx, linx, lincor, units>>

\* Line 314.
SetLastConnectDatesPass ==
  /\ pc_v = "last"
  /\ \E guids_key \in OpenKey(MountPoints) :
       IF guids_key = None
       THEN pc_v' = "raised" /\ UNCHANGED usb_devices_w
       ELSE /\ pc_v' = "enrich"
            /\ usb_devices_w' = [i \in 1..Len(usb_devices_w) |->
                                   SetLastConnectDate(usb_devices_w[i], Val(guids_key))]
  /\ UNCHANGED <<enrich_ix_w, time_dict, winx, linx, lincor, units>>

\* Line 315: one iteration of the loop of _set_devices_info.
EnrichWindowsDevice ==
  /\ pc_v = "enrich"
  /\ enrich_ix_w < Len(usb_devices_w)
  /\ \E outcome \in WebOutcomes :
       LET r == SetDevicesInfoBody(usb_devices_w[enrich_ix_w + 1], outcome)
       IN  /\ usb_devices_w' = IF r.raised THEN usb_devices_w
                               ELSE [usb_devices_w EXCEPT ![enrich_ix_w + 1] = r.value]
           /\ pc_v' = IF r.raised THEN "raised" ELSE "enrich"
  /\ enrich_ix_w' = enrich_ix_w + 1
  /\ UNCHANGED <<time_dict, winx, linx, lincor, units>>

\* Line 316: return usb_devices.
ReturnWindowsDevices ==
  /\ pc_v = "enrich"
  /\ enrich_ix_w = Len(usb_devices_w)
  /\ pc_v' = "done"
  /\ UNCHANGED <<usb_devices_w, enrich_ix_w, time_dict, winx, linx, lincor, units>>

InitWin ==
  /\ usb_devices_w = << >>
  /\ enrich_ix_w = 0
  /\ time_dict = << >>
  /\ pc_v = "base"
  /\ WinxOff
  /\ LinxOff
  /\ LincorOff
  /\ UnitsOff

NextWin ==
  \/ GetBaseDeviceInfo
  \/ SetVendorAndProductIdsPass
  \/ SetGuidsPass
  \/ SetDriveLettersPass
  \/ ReadSetupApiLogs
  \/ SetFirstConnectDates
  \/ SetLastConnectDatesPass
  \/ EnrichWindowsDevice
  \/ ReturnWindowsDevices

SpecWin == InitWin /\ [][NextWin]_vars

(***************************************************************************)
(* get_usb_devices of the viewer get_usb_viewer returns (lines 534-540):   *)
(* WindowsViewer.get_usb_devices (308-316) or LinuxViewer.get_usb_devices  *)
(* (455-458).                                                              *)
(***************************************************************************)
InitViewers == InitWin \/ InitLinux

NextViewers == NextWin \/ NextLinux

SpecViewers == InitViewers /\ [][NextViewers]_vars

(***************************************************************************)
(* BaseViewer._set_devices_info (src/PastUSB.py:266-272) on its own: the   *)
(* static method applied, once or again, to a list of records.             *)
(***************************************************************************)
\* USBDevice(vendor_id=..., product_id=...), the other fields None.
USBDevice(vendor_id, product_id) ==
  [ version |-> None, serial_number |-> None, friendly_name |-> None,
    vendor_id |-> vendor_id, product_id |-> product_id,
    first_connect_date |-> None, last_connect_date |-> None,
    vendor_name |-> None, product_description |-> None ]

EnrichRecords ==
  { USBDevice(v, p) : v \in {None, Some("0951")}, p \in {None, Some("1666")} }

MaxEnrichDevices == 2

MaxEnrichCalls == 2

\* One iteration of the loop of lines 268-272.
SetDevicesInfoStep ==
  /\ pc_e = "loop"
  /\ enrich_ix_e < Len(usb_devices_e)
  /\ \E outcome \in WebOutcomes :
       LET r == SetDevicesInfoBody(usb_devices_e[enrich_ix_e + 1], outcome)
       IN  /\ usb_devices_e' = IF r.raised THEN usb_devices_e
                               ELSE [usb_devices_e EXCEPT ![enrich_ix_e + 1] = r.value]
           /\ pc_e' = IF r.raised THEN "raised" ELSE "loop"
  /\ lookups' = IF LooksUp(usb_devices_e[enrich_ix_e + 1])
                THEN Append(lookups, enrich_ix_e + 1) ELSE lookups
  /\ enrich_ix_e' = enrich_ix_e + 1
  /\ UNCHANGED <<devices_in, calls, winx, linx, lincor, wincor, entryx, joinx, parsx, timex, basex>>

\* The loop is over: _set_devices_info returns.
SetDevicesInfoReturn ==
  /\ pc_e = "loop"
  /\ enrich_ix_e = Len(usb_devices_e)
  /\ calls' = calls + 1
  /\ pc_e' = "returned"
  /\ UNCHANGED <<usb_devices_e, devices_in, enrich_ix_e, lookups,
                 winx, linx, lincor, wincor, entryx, joinx, parsx, timex, basex>>

\* _set_devices_info is called again with the same list.
SetDevicesInfoAgain ==
  /\ pc_e = "returned"
  /\ calls < MaxEnrichCalls
  /\ enrich_ix_e' = 0
  /\ lookups' = << >>
  /\ pc_e' = "loop"
  /\ UNCHANGED <<usb_devices_e, devices_in, calls, winx, linx, lincor, wincor, entryx, joinx, parsx, timex, basex>>

InitEnrich ==
  /\ usb_devices_e \in SeqsUpTo(EnrichRecords, MaxEnrichDevices)
  /\ devices_in = usb_devices_e
  /\ enrich_ix_e = 0
  /\ lookups = << >>
  /\ calls = 0
  /\ pc_e = "loop"
  /\ WinxOff
  /\ LinxOff
  /\ LincorOff
  /\ WincorOff
  /\ EntryxOff
  /\ JoinxOff
  /\ ParsxOff
  /\ TimexOff
  /\ BasexOff

NextEnrich ==
  \/ SetDevicesInfoStep
  \/ SetDevicesInfoReturn
  \/ SetDevicesInfoAgain

SpecEnrich == InitEnrich /\ [][NextEnrich]_vars

(***************************************************************************)
(* One iteration of the loop of LinuxViewer.__get_base_device_info         *)
(* (src/PastUSB.py:461-477) on its own: a section and a year met with an   *)
(* empty list usb_devices.                                                 *)
(***************************************************************************)
ParseStamps == {1, 2}

ParseYears == {1, 2}

ParseSections ==
  {MkSection(stick, st, stamp, d) :
     stick \in UsbSticks, st \in SerialTexts, stamp \in ParseStamps, d \in Defects}

ParseSection ==
  /\ pc_p = "call"
  /\ LET r == BaseDeviceInfoBody(<< >>, p_section, p_year)
     IN  /\ p_devices' = IF r.raised THEN << >> ELSE r.value
         /\ pc_p' = IF r.raised THEN "raised" ELSE "returned"
  /\ UNCHANGED <<p_section, p_year, winx, linx, lincor, wincor, enrx, entryx, joinx, timex, basex>>

InitParse ==
  /\ p_section \in ParseSections
  /\ p_year \in ParseYears
  /\ p_devices = << >>
  /\ pc_p = "call"
  /\ WinxOff
  /\ LinxOff
  /\ LincorOff
  /\ WincorOff
  /\ EnrxOff
  /\ EntryxOff
  /\ JoinxOff
  /\ TimexOff
  /\ BasexOff

NextParse == ParseSection

SpecParse == InitParse /\ [][NextParse]_vars

(***************************************************************************)
(* The entry points (src/PastUSB.py:562-626): the __main__ block of the    *)
(* script and the function PastUSB() of the imported module.  Prints that  *)
(* only switch the colour are left out.                                    *)
(***************************************************************************)
Systems == {"Windows", "Linux", "Darwin"}

\* What the privilege check of a system can find: IsUserAnAdmin() true,
\* false or raising; os.geteuid() zero or not.
Privileges(s) ==
  IF s = "Windows" THEN {"granted", "denied", "error"}
  ELSE IF s = "Linux" THEN {"granted", "denied"}
  ELSE {"unchecked"}

\* Lines 565-598: the lines printed and whether exit() is called.
ScriptCheck(s, priv) ==
  IF s = "Windows"
  THEN IF priv = "error"
       THEN [pc |-> "exit",
             printed |-> <<"[!!!] Error while checking permissions", "Debug :">>]
       ELSE IF priv = "denied"
       THEN [pc |-> "exit",
             printed |-> <<"[x] Administrator rights not found",
                           "[*] Please run this script as Administrator">>]
       ELSE [pc |-> "viewer", printed |-> <<"[v] Administrator rights are granted">>]
  ELSE IF s = "Linux"
  THEN IF priv # "granted"
       THEN [pc |-> "exit",
             printed |-> <<"[x] sudo permission denied",
                           "[*] Please run this script as root">>]
       ELSE [pc |-> "viewer", printed |-> <<"[v] sudo permission granted">>]
  ELSE [pc |-> "exit", printed |-> <<"Sorry!! This script is only for Windows and Linux">>]

\* Mutant: on Windows the run goes on without administrator rights.
PastUSBCheckWindowsOpen(s, priv) ==
  IF s = "Windows" /\ priv = "error"
  THEN [pc |-> "raised", printed |-> <<"IsUserAnAdmin failed">>]
  ELSE IF s = "Linux" /\ priv # "granted"
  THEN [pc |-> "raised", printed |-> <<"Exception: sudo permission denied">>]
  ELSE IF s \in {"Windows", "Linux"} THEN [pc |-> "viewer", printed |-> << >>]
  ELSE [pc |-> "raised", printed |-> <<"Exception: Unsupported platform detected">>]

\* Lines 616-623: the exception raised, if any; one out of IsUserAnAdmin()
\* is not caught here.
PastUSBCheck(s, priv) ==
  IF s = "Windows"
  THEN IF priv = "error"
       THEN [pc |-> "raised", printed |-> <<"IsUserAnAdmin failed">>]
       ELSE IF priv = "denied"
       THEN [pc |-> "raised", printed |-> <<"Exception: Administrator rights not found">>]
       ELSE [pc |-> "viewer", printed |-> << >>]
  ELSE IF s = "Linux"
  THEN IF priv # "granted"
       THEN [pc |-> "raised", printed |-> <<"Exception: sudo permission denied">>]
       ELSE [pc |-> "viewer", printed |-> << >>]
  ELSE [pc |-> "raised", printed |-> <<"Exception: Unsupported platform detected">>]

\* get_usb_viewer (lines 534-540).
GetUsbViewer(s) ==
  IF s = "Windows" THEN Some("WindowsViewer")
  ELSE IF s = "Linux" THEN Some("LinuxViewer")
  ELSE None

\* A device as __main__ uses it: the text of its get_details().
DeviceDetails == {"Device: Kingston DataTraveler USB Device", "Device: None"}

MaxDevicesFound == 3

\* Lines 563-564: os.system(""); terminal_banner().
TerminalBanner ==
  /\ pc_m = "banner"
  /\ printed' = Append(printed, "PastUSB banner")
  /\ pc_m' = "check"
  /\ UNCHANGED <<mode, system, privilege, viewer, devices_m, print_ix,
                 winx, linx, lincor, wincor, enrx, joinx, parsx, timex, basex>>

\* The platform and privilege check of lines 565-598 and of lines 616-623.
CheckPrivilege ==
  /\ pc_m = "check"
  /\ LET r == IF mode = "script" THEN ScriptCheck(system, privilege)
              ELSE PastUSBCheck(system, privilege)
     IN  /\ printed' = printed \o r.printed
         /\ pc_m' = r.pc
  /\ UNCHANGED <<mode, system, privilege, viewer, devices_m, print_ix,
                 winx, linx, lincor, wincor, enrx, joinx, parsx, timex, basex>>

\* Lines 599 and 624: viewer = get_usb_viewer().
CreateViewer ==
  /\ pc_m = "viewer"
  /\ viewer' = GetUsbViewer(system)
  /\ pc_m' = "scan"
  /\ UNCHANGED <<mode, system, privilege, devices_m, printed, print_ix,
                 winx, linx, lincor, wincor, enrx, joinx, parsx, timex, basex>>

\* Lines 600 and 625-626: devices = viewer.get_usb_devices(), which returns
\* a list or raises; PastUSB() then returns the list.
ScanDevices ==
  /\ pc_m = "scan"
  /\ viewer # None
  /\ \/ /\ pc_m' = "raised"
        /\ printed' = Append(printed, "get_usb_devices failed")
        /\ UNCHANGED devices_m
     \/ \E found \in SeqsUpTo(DeviceDetails, MaxDevicesFound) :
          /\ devices_m' = Some(found)
          /\ pc_m' = IF mode = "script" THEN "report" ELSE "end"
          /\ UNCHANGED printed
  /\ UNCHANGED <<mode, system, privilege, viewer, print_ix,
                 winx, linx, lincor, wincor, enrx, joinx, parsx, timex, basex>>

\* Lines 601-609: the number of devices found; exit() when there is none.
ReportCount ==
  /\ pc_m = "report"
  /\ LET n == Len(Val(devices_m))
     IN  /\ printed' = Append(printed,
                         IF n = 1 THEN "[!] 1 USB Device found in history"
                         ELSE IF n >= 2 THEN "[!] n USB Devices found in history"
                         ELSE "[!] No USB Device found in history")
         /\ pc_m' = IF n = 0 THEN "exit" ELSE "list"
  /\ UNCHANGED <<mode, system, privilege, viewer, devices_m, print_ix,
                 winx, linx, lincor, wincor, enrx, joinx, parsx, timex, basex>>

\* Lines 611-612: print(device.get_details()) for the next device.
PrintDetails ==
  /\ pc_m = "list"
  /\ print_ix < Len(Val(devices_m))
  /\ printed' = Append(printed, Val(devices_m)[print_ix + 1])
  /\ print_ix' = print_ix + 1
  /\ pc_m' = IF print_ix + 1 = Len(Val(devices_m)) THEN "end" ELSE "list"
  /\ UNCHANGED <<mode, system, privilege, viewer, devices_m,
                 winx, linx, lincor, wincor, enrx, joinx, parsx, timex, basex>>

InitEntry ==
  /\ mode \in {"script", "import"}
  /\ system \in Systems
  /\ privilege \in Privileges(system)
  /\ viewer = None
  /\ devices_m = None
  /\ printed = << >>
  /\ print_ix = 0
  /\ pc_m = IF mode = "script" THEN "banner" ELSE "check"
  /\ WinxOff
  /\ LinxOff
  /\ LincorOff
  /\ WincorOff
  /\ EnrxOff
  /\ JoinxOff
  /\ ParsxOff
  /\ TimexOff
  /\ BasexOff

NextEntry ==
  \/ TerminalBanner
  \/ CheckPrivilege
  \/ CreateViewer
  \/ ScanDevices
  \/ ReportCount
  \/ PrintDetails

SpecEntry == InitEntry /\ [][NextEntry]_vars

(***************************************************************************)
(* The join passes of WindowsViewer (src/PastUSB.py:348-410) on their own: *)
(* one pass applied to a list of one record.                               *)
(***************************************************************************)
JoinPasses == {"ids", "guids", "letters", "first", "last"}

\* The records the base pass builds, with the guid an earlier pass may
\* have set.
JoinDevices ==
  LET built == UNION { {BaseDeviceInfo(tree)[i] : i \in 1..Len(BaseDeviceInfo(tree))} :
                       tree \in UsbstorTrees }
  IN  { [device EXCEPT !.guid = guid] :
          device \in built,
          guid \in {None, Some(<<"{", "g1", "}">>), Some(<<"{", "g2", "}">>)} }

\* Two keys of Windows Portable Devices for one device.
PortableDevicesTwice ==
  << [key |-> <<"#", "1", "2", "&", "0", "#">>, FriendlyName |-> Some("E:\\")],
     [key |-> <<"SWD", "#", "1", "2", "&", "0", "#">>, FriendlyName |-> Some("KINGSTON")] >>

\* The entries a pass scans: the registry subtree, or time_dict as the
\* first loop of __set_first_connect_dates leaves it.
JoinItems(pass) ==
  IF pass = "ids" THEN UsbTrees
  ELSE IF pass = "guids" THEN MountedDevices
  ELSE IF pass = "letters" THEN PortableDevices \cup {PortableDevicesTwice}
  ELSE IF pass = "first"
  THEN { TimeDict(logs.sections, FALSE, << >>).value :
           logs \in {l \in SetupApiLogs : ~TimeDict(l.sections, FALSE, << >>).raised} }
  ELSE MountPoints

\* The pass applied to the list of the one record.
JoinPass(pass, device, items) ==
  IF pass = "ids" THEN SetVendorAndProductIds(<<device>>, items)
  ELSE IF pass = "guids" THEN Ret(SetGuids(<<device>>, items))
  ELSE IF pass = "letters" THEN Ret(SetDriveLetters(<<device>>, items))
  ELSE IF pass = "first" THEN Ret(<<SetFirstConnectDate(device, items)>>)
  ELSE Ret(<<SetLastConnectDate(device, items)>>)

ApplyJoinPass ==
  /\ pc_j = "call"
  /\ LET r == JoinPass(join_pass, join_device, join_items)
     IN  /\ join_result' = IF r.raised THEN None ELSE Some(r.value[1])
         /\ pc_j' = IF r.raised THEN "raised" ELSE "returned"
  /\ UNCHANGED <<join_pass, join_device, join_items,
                 winx, linx, lincor, wincor, enrx, entryx, parsx, timex, basex>>

InitJoin ==
  /\ join_pass \in JoinPasses
  /\ join_device \in JoinDevices
  /\ join_items \in JoinItems(join_pass)
  /\ join_result = None
  /\ pc_j = "call"
  /\ WinxOff
  /\ LinxOff
  /\ LincorOff
  /\ WincorOff
  /\ EnrxOff
  /\ EntryxOff
  /\ ParsxOff
  /\ TimexOff
  /\ BasexOff

NextJoin == ApplyJoinPass

SpecJoin == InitJoin /\ [][NextJoin]_vars

(***************************************************************************)
(* convert_windows_time_to_unix on its own.                                *)
(***************************************************************************)
MaxUnixSeconds == 3

\* Ticks within the second: its start, its middle and its end.
TickSamples ==
  {0, 1, 2, 4999999, 5000000, 5000001, 9999989, 9999990, 9999991, 9999995,
   9999998, 9999999}

ConvertTime ==
  /\ pc_t = "call"
  /\ t_unix' = Some(ConvertWindowsTimeToUnix(t_stamp))
  /\ pc_t' = "returned"
  /\ UNCHANGED <<t_stamp, winx, linx, lincor, wincor, enrx, entryx, joinx, parsx, basex>>

InitTime ==
  /\ t_stamp \in [unix : (-1)..MaxUnixSeconds, ticks : TickSamples]
  /\ t_unix = None
  /\ pc_t = "call"
  /\ WinxOff
  /\ LinxOff
  /\ LincorOff
  /\ WincorOff
  /\ EnrxOff
  /\ EntryxOff
  /\ JoinxOff
  /\ ParsxOff
  /\ BasexOff

NextTime == ConvertTime

SpecTime == InitTime /\ [][NextTime]_vars

(***************************************************************************)
(* WindowsViewer.__get_base_device_info (src/PastUSB.py:317-347) on its    *)
(* own, the USBSTOR root being there.                                      *)
(***************************************************************************)
\* Key names under USBSTOR: a disk, a disk whose vendor text holds 'Ven_'
\* again ('HiVen Tech': the registry writes '_' for a space), a name of
\* three fields, a CD-ROM drive.
BaseKeyNames ==
  { <<"Disk", "&", "Ven", "_", "Kingston", "&", "Prod", "_", "DataTraveler",
      "&", "Rev", "_", "1.00">>,
    <<"Disk", "&", "Ven", "_", "Hi", "Ven", "_", "Tech", "&", "Prod", "_", "Stick",
      "&", "Rev", "_", "2.0">>,
    <<"Disk", "&", "Ven", "_", "Generic", "&", "Prod", "_", "Flash">>,
    <<"CdRom", "&", "Ven", "_", "HL-DT", "&", "Prod", "_", "DVDRAM",
      "&", "Rev", "_", "1.0">> }

GetBaseDeviceInfoCall ==
  /\ pc_b = "call"
  /\ b_devices' = Some(BaseDeviceInfo(b_tree))
  /\ pc_b' = "returned"
  /\ UNCHANGED <<b_tree, winx, linx, lincor, wincor, enrx, entryx, joinx, parsx, timex>>

InitBase ==
  /\ b_tree \in TreesOf(BaseKeyNames, MaxUsbstorDevices)
  /\ b_devices = None
  /\ pc_b = "call"
  /\ WinxOff
  /\ LinxOff
  /\ LincorOff
  /\ WincorOff
  /\ EnrxOff
  /\ EntryxOff
  /\ JoinxOff
  /\ ParsxOff
  /\ TimexOff

NextBase == GetBaseDeviceInfoCall

SpecBase == InitBase /\ [][NextBase]_vars

(***************************************************************************)
(* Section extractors: claims                                              *)
(***************************************************************************)
IsRun(s) == \A j \in 1..(Len(s) - 1) : s[j + 1] = s[j] + 1

\* C5: every section the Windows extractor yields is exactly one doubled
\* start pair, every line of the file between the pairs, and the doubled end
\* pair, in file order; sections come in file order, one per pair.
C5_SectionIsWholeRun ==
  \A k \in 1..Len(yielded_w) :
    LET s == yielded_w[k]
    IN  /\ Len(s) >= 4
        /\ StartsWithStart(log_file_w, s[1])
        /\ StartsWithStart(log_file_w, s[2])
        /\ StartsWithEnd(log_file_w, s[Len(s) - 1])
        /\ StartsWithEnd(log_file_w, s[Len(s)])
        /\ IsRun(s)
        /\ \A k2 \in (k + 1)..Len(yielded_w) : Last(s) < yielded_w[k2][1]

\* C6: when an end-marker line is read inside a section and the line after
\* it is not an end marker, both the marker line and the peeked line are in
\* the section exactly once after the step.
C6_NoLineLost ==
  [][ ( /\ pc_w = "run"
        /\ pos_w + 1 < Len(log_file_w)
        /\ Len(log_section) > 0
        /\ StartsWithEnd(log_file_w, pos_w + 1)
        /\ ~StartsWithEnd(log_file_w, pos_w + 2) )
      => ( /\ Count(log_section', pos_w + 1) = 1
           /\ Count(log_section', pos_w + 2) = 1 ) ]_vars

\* C7: the Linux extractor yields a section only at a mount line reached
\* with the list non-empty: every yielded section ends with a mount line
\* already read, starts with an announcement line, holds no line from before
\* the latest announcement preceding its mount line (a superseded section
\* is never yielded, not even in part), and a mount line ends at most one
\* section; no line of the list still open (at the end of the file too) is
\* in a yielded section.
C7_YieldOnlyAtMount ==
  /\ \A k \in 1..Len(yielded_l) :
       LET s == yielded_l[k]
       IN  /\ Len(s) >= 2
           /\ HasMounted(log_file_l, Last(s))
           /\ Last(s) <= pos_l
           /\ HasNewDevice(log_file_l, s[1])
           /\ \A j \in 1..Len(s) : \A n \in (s[j] + 1)..Last(s) :
                ~HasNewDevice(log_file_l, n)
           /\ \A k2 \in (k + 1)..Len(yielded_l) : Last(s) < yielded_l[k2][1]
  /\ Len(yielded_l) <= Cardinality({i \in 1..pos_l : HasMounted(log_file_l, i)})
  /\ \A k \in 1..Len(yielded_l) : \A j \in 1..Len(section) :
       Last(yielded_l[k]) < section[j]

\* C7 witness: two announcements with no mount line between them, then a
\* mount line, then an announcement cut off by the end of the file: one
\* section, that of the second announcement.
C7_Witness ==
  /\ pc_l = "done"
  /\ log_file_l = <<"new", "other", "new", "mount", "new">>
  /\ Len(yielded_l) = 1
  /\ yielded_l[1][1] = 3
  /\ section = <<5>>

\* C8: every section the Linux extractor yields is the run of file lines
\* from the most recent announcement line through the mount line, each line
\* once.
C8_SectionIsLineRun ==
  \A k \in 1..Len(yielded_l) :
    LET s == yielded_l[k]
    IN  /\ HasNewDevice(log_file_l, s[1])
        /\ HasMounted(log_file_l, Last(s))
        /\ IsRun(s)
        /\ \A n \in (s[1] + 1)..Last(s) : ~HasNewDevice(log_file_l, n)

(***************************************************************************)
(* Linux correlator: claims                                                *)
(***************************************************************************)
\* A step of the loop of __get_base_device_info that handled a section
\* without raising; serial_number' and connect_time' are then what it
\* parsed from the section.
SectionHandled ==
  /\ sections_read' = sections_read + 1
  /\ pc_c' = "scan"

NoDuplicateSerial(usb_devices) ==
  \A i, k \in 1..Len(usb_devices) :
    (i # k /\ usb_devices[i].serial_number # None)
      => usb_devices[i].serial_number # usb_devices[k].serial_number

HasSerial(usb_devices, sn) ==
  \E i \in 1..Len(usb_devices) : usb_devices[i].serial_number = sn

\* C1: the Linux record list never holds two records with the same
\* non-empty serial number, and a section whose serial number is that of an
\* existing record appends no record.
C1_OneRecordPerSerial ==
  [][ /\ NoDuplicateSerial(usb_devices_l')
      /\ (SectionHandled /\ serial_number' # None
            /\ HasSerial(usb_devices_l, serial_number'))
         => Len(usb_devices_l') = Len(usb_devices_l) ]_vars

\* C1 witness: a second section with the serial number of the only record
\* has been handled; the list still has that one record.
C1_Witness ==
  /\ pc_c = "scan"
  /\ sections_read = 2
  /\ Len(usb_devices_l) = 1
  /\ serial_number = Some(<<"S1">>)
  /\ usb_devices_l[1].serial_number = Some(<<"S1">>)
  /\ usb_devices_l[1].last_connect_date = connect_time
  /\ usb_devices_l[1].first_connect_date # connect_time

\* C2: a section without a SerialNumber line is never merged into an
\* existing record: handling it appends one record and leaves the existing
\* ones as they were.
C2_NoSerialStandsAlone ==
  [][ (SectionHandled /\ serial_number' = None)
      => /\ Len(usb_devices_l') = Len(usb_devices_l) + 1
         /\ \A i \in 1..Len(usb_devices_l) : usb_devices_l'[i] = usb_devices_l[i] ]_vars

\* C9: when the serial number of a section equals that of an existing
\* record, the list after the step is the list before it with that
\* record's last_connect_date set to the section's connect time: no other
\* field, no other record and not the length changes.
C9_OnlyLastConnectDate ==
  [][ (SectionHandled /\ HasSerial(usb_devices_l, serial_number'))
      => \E i \in 1..Len(usb_devices_l) :
           /\ usb_devices_l[i].serial_number = serial_number'
           /\ usb_devices_l' =
                [usb_devices_l EXCEPT ![i].last_connect_date = connect_time'] ]_vars

\* C9 witness: with two records in the list, the third section had the
\* serial number of the first record and moved its last_connect_date.
C9_Witness ==
  /\ pc_c = "scan"
  /\ sections_read = 3
  /\ Len(usb_devices_l) = 2
  /\ serial_number = usb_devices_l[1].serial_number
  /\ serial_number # None
  /\ usb_devices_l[1].last_connect_date = connect_time
  /\ usb_devices_l[1].first_connect_date # connect_time
  /\ usb_devices_l[1].vendor_id # usb_devices_l[2].vendor_id

\* C10: the last_connect_date of a record with a serial number is the
\* connect time of the later of its sessions: merging a section leaves the later of the record's
\* last_connect_date and the section's connect time, keeps
\* first_connect_date and device_size, and so first_connect_date <=
\* last_connect_date in every record.
C10_LastIsLatestSession ==
  [][ /\ \A i \in 1..Len(usb_devices_l') :
           usb_devices_l'[i].serial_number # None
           => Val(usb_devices_l'[i].first_connect_date)
                <= Val(usb_devices_l'[i].last_connect_date)
      /\ (SectionHandled /\ serial_number' # None
            /\ HasSerial(usb_devices_l, serial_number'))
         => \A i \in 1..Len(usb_devices_l) :
              usb_devices_l[i].serial_number = serial_number'
              => /\ usb_devices_l'[i].first_connect_date
                      = usb_devices_l[i].first_connect_date
                 /\ usb_devices_l'[i].device_size = usb_devices_l[i].device_size
                 /\ Val(usb_devices_l'[i].last_connect_date)
                      >= Val(usb_devices_l[i].last_connect_date)
                 /\ Val(usb_devices_l'[i].last_connect_date)
                      >= Val(connect_time') ]_vars

(***************************************************************************)
(* Windows correlator: claims.                                             *)
(***************************************************************************)
\* C3: the list WindowsViewer.get_usb_devices returns never holds two
\* records with the same non-empty serial number, whatever the USBSTOR
\* tree.
C3_NoDuplicateSerialReturned ==
  pc_v = "done"
    => \A i, k \in 1..Len(usb_devices_w) :
         (i # k /\ Val(usb_devices_w[i].serial_number) # << >>)
           => usb_devices_w[i].serial_number # usb_devices_w[k].serial_number

\* The serial number of the device instance a 'Device Install' line names:
\* the text after the last '\' up to the '&' that follows it.
SerialOfInstallLine(line) == Split(Last(Split(line, "\\")), "&")[1]

\* C4: the first-connect pass gives a record only the install time of a
\* log section whose device has the serial number of the record, never
\* that of a section of a device with another serial number (a longer one
\* that holds the record's as a substring, say).
C4_InstallTimeOfOwnSerial ==
  [][ pc_v = "first"
        => \A i \in 1..Len(usb_devices_w) :
             usb_devices_w'[i].first_connect_date # usb_devices_w[i].first_connect_date
               => \E n \in 1..Len(time_dict) :
                    /\ Some(time_dict[n].value) = usb_devices_w'[i].first_connect_date
                    /\ Some(SerialOfInstallLine(time_dict[n].key))
                         = usb_devices_w[i].serial_number ]_vars

(***************************************************************************)
(* Enrichment: claims.                                                     *)
(***************************************************************************)
\* C11: no failure of the lookup, of whatever kind, raises out of
\* get_device_info_from_web or _set_devices_info: no iteration of the loop
\* of _set_devices_info ends in an exception.
C11_LookupNeverRaises ==
  [][ pc_e = "loop" => pc_e' # "raised" ]_vars

\* C12: a second application of _set_devices_info leaves vendor_name and
\* product_description of a record unchanged when both are already
\* populated, whatever the second lookup returns.
C12_SecondCallKeepsNames ==
  [][ (calls >= 1 /\ pc_e = "loop")
        => \A i \in 1..Len(usb_devices_e) :
             (usb_devices_e[i].vendor_name # None
                /\ usb_devices_e[i].product_description # None)
               => /\ usb_devices_e'[i].vendor_name = usb_devices_e[i].vendor_name
                  /\ usb_devices_e'[i].product_description
                       = usb_devices_e[i].product_description ]_vars

\* The positions up to n of the records passed in that have both a
\* vendor id and a product id, in order.
WithBothIds(n) ==
  SelectSeq([i \in 1..n |-> i],
            LAMBDA i : devices_in[i].vendor_id # None /\ devices_in[i].product_id # None)

\* C19: _set_devices_info looks up each record it visits that has both a
\* vendor id and a product id exactly once and no other record; it keeps
\* the number and the order of the records, changes no field but
\* vendor_name and product_description, and leaves a record it does not
\* look up as it was.
C19_OneLookupAndFrame ==
  /\ lookups = WithBothIds(enrich_ix_e)
  /\ pc_e = "returned" => enrich_ix_e = Len(devices_in)
  /\ Len(usb_devices_e) = Len(devices_in)
  /\ \A i \in 1..Len(devices_in) :
       /\ usb_devices_e[i] =
            [devices_in[i] EXCEPT
               !.vendor_name = usb_devices_e[i].vendor_name,
               !.product_description = usb_devices_e[i].product_description]
       /\ (devices_in[i].vendor_id = None \/ devices_in[i].product_id = None)
            => usb_devices_e[i] = devices_in[i]

C19_Witness ==
  /\ pc_e = "returned"
  /\ Len(devices_in) = 2
  /\ devices_in[1].vendor_id # None /\ devices_in[1].product_id = None
  /\ lookups = <<2>>
  /\ usb_devices_e[2].vendor_name # None

(***************************************************************************)
(* Linux identity parsing: claims.                                         *)
(***************************************************************************)
\* A label of the section is absent: no line has it, or nothing follows it.
NoText(text) == text = None \/ text = Some(<< >>)

\* C13: a section whose first line has the hostname, and whose 'logical
\* blocks' line, if any, has its ']', never makes the iteration raise,
\* whichever of its labels are missing or have no value after them; the
\* record is appended and the field of each such label is absent.
C13_MissingLabelIsAbsentField ==
  (/\ pc_p \in {"returned", "raised"}
   /\ p_section.hostname
   /\ (p_section.blocks # None => Val(p_section.blocks).bracket))
    => /\ pc_p = "returned"
       /\ Len(p_devices) = 1
       /\ NoText(p_section.info["SerialNumber:"]) => p_devices[1].serial_number = None
       /\ NoText(p_section.info["Product:"]) => p_devices[1].syslog_product = None
       /\ NoText(p_section.info["Manufacturer:"])
            => p_devices[1].syslog_manufacturer = None
       /\ NoText(p_section.info["Direct-Access"]) => p_devices[1].friendly_name = None
       /\ p_section.id["idVendor"] = None => p_devices[1].vendor_id = None
       /\ p_section.id["idProduct"] = None => p_devices[1].product_id = None
       /\ p_section.id["bcdDevice"] = None => p_devices[1].version = None
       /\ p_section.blocks = None => p_devices[1].device_size = None

(***************************************************************************)
(* Windows source unavailability: claims.                                  *)
(***************************************************************************)
\* C14: a pass whose registry subtree is absent (MountedDevices, Portable
\* Devices, MountPoints2; the only failure these three passes have) does
\* not make get_usb_devices fail: the pass contributes nothing and the
\* next pass runs.
C14_AbsentSourceIsSkipped ==
  [][ (pc_v = "guids" \/ pc_v = "letters" \/ pc_v = "last") => pc_v' # "raised" ]_vars

\* C15: with the USBSTOR root absent (the only failure of the base pass)
\* get_usb_devices does not raise.
C15_AbsentRootIsEmptyResult ==
  [][ pc_v = "base" => pc_v' # "raised" ]_vars

(***************************************************************************)
(* Entry points: claims.                                                   *)
(***************************************************************************)
UnsupportedReasons ==
  {"Sorry!! This script is only for Windows and Linux",
   "Exception: Unsupported platform detected"}

NoPrivilegeReasons ==
  {"[x] Administrator rights not found", "[x] sudo permission denied",
   "Exception: Administrator rights not found", "Exception: sudo permission denied"}

Said(reasons) == \E i \in 1..Len(printed) : printed[i] \in reasons

\* C16: a viewer exists, and get_usb_devices has been reached, only on
\* Windows or Linux with the privilege granted; on another platform, and
\* without the privilege, the run has stopped once the check is over, with
\* no viewer and no devices, having given the reason of its case and not
\* that of the other.
C16_CheckedBeforeScan ==
  /\ (viewer # None \/ devices_m # None
        \/ pc_m \in {"scan", "report", "list", "end"})
       => (system \in {"Windows", "Linux"} /\ privilege = "granted")
  /\ (pc_m \notin {"banner", "check"} /\ system \notin {"Windows", "Linux"})
       => /\ pc_m \in {"exit", "raised"}
          /\ viewer = None /\ devices_m = None
          /\ Said(UnsupportedReasons) /\ ~Said(NoPrivilegeReasons)
  /\ (pc_m \notin {"banner", "check"} /\ privilege = "denied")
       => /\ pc_m \in {"exit", "raised"}
          /\ viewer = None /\ devices_m = None
          /\ Said(NoPrivilegeReasons) /\ ~Said(UnsupportedReasons)
  /\ UnsupportedReasons \cap NoPrivilegeReasons = {}

C16_Witness ==
  /\ mode = "import"
  /\ system = "Windows"
  /\ privilege = "denied"
  /\ pc_m = "raised"
  /\ printed = <<"Exception: Administrator rights not found">>

(***************************************************************************)
(* Windows join passes: claims.                                            *)
(***************************************************************************)
\* The key of a record that a pass looks for matches the source entry.
JoinMatches(pass, device, item) ==
  IF pass = "ids"
  THEN /\ Contains(item.id, <<"VID">>) /\ Contains(item.id, <<"PID">>)
       /\ item.subkeys # << >>
       /\ device.serial_number = Some(item.subkeys[1])
  ELSE IF pass = "guids"
  THEN /\ Contains(ConvertBinaryToAsciiString(item.value), Val(device.parent_prefix_id))
       /\ Contains(item.key, <<"\\", "Volume">>)
  ELSE IF pass = "letters" THEN Contains(item.key, Val(device.parent_prefix_id))
  ELSE IF pass = "first" THEN Contains(item.key, Val(device.serial_number))
  ELSE device.guid = Some(item.name)

\* The positions of the entries of join_items that match join_device.
JoinMatching ==
  {i \in 1..Len(join_items) : JoinMatches(join_pass, join_device, join_items[i])}

\* C17: the GUID, drive-letter and first-connect passes do not fail, and
\* when more than one entry matches the record, the record ends with the
\* value of the last matching entry in scan order.
C17_LastMatchWins ==
  (pc_j # "call" /\ join_pass \in {"guids", "letters", "first"})
    => /\ pc_j = "returned"
       /\ Cardinality(JoinMatching) > 1
            => LET item == join_items[CHOOSE i \in JoinMatching :
                                        \A k \in JoinMatching : k <= i]
                   device == Val(join_result)
               IN  /\ join_pass = "guids" => device.guid = Some(FromIndex(item.key, "{"))
                   /\ join_pass = "letters" => device.drive_letter = item.FriendlyName
                   /\ join_pass = "first" => device.first_connect_date = Some(item.value)

C17_Witness ==
  /\ pc_j = "returned"
  /\ join_pass = "letters"
  /\ join_items = PortableDevicesTwice
  /\ Cardinality(JoinMatching) = 2
  /\ Val(join_result).drive_letter = Some("KINGSTON")

\* C18: a pass that finds no entry matching the record returns the record
\* as it was, its target field still absent; any pass changes its target
\* field only; and a record without guid gets no last_connect_date.
C18_MissKeepsRecord ==
  pc_j = "returned"
    => LET device == Val(join_result)
       IN  /\ JoinMatching = {} => device = join_device
           /\ join_pass = "ids"
                => device = [join_device EXCEPT !.vendor_id = device.vendor_id,
                                                !.product_id = device.product_id]
           /\ join_pass = "guids" => device = [join_device EXCEPT !.guid = device.guid]
           /\ join_pass = "letters"
                => device = [join_device EXCEPT !.drive_letter = device.drive_letter]
           /\ join_pass = "first"
                => device = [join_device EXCEPT
                               !.first_connect_date = device.first_connect_date]
           /\ join_pass = "last"
                => device = [join_device EXCEPT
                               !.last_connect_date = device.last_connect_date]
           /\ (join_pass = "last" /\ join_device.guid = None)
                => device.last_connect_date = None

C18_Witness ==
  /\ pc_j = "returned"
  /\ join_pass = "last"
  /\ join_device.guid = None
  /\ Len(join_items) = 3
  /\ Val(join_result) = join_device

(***************************************************************************)
(* Section extractors: yielded sections.                                   *)
(***************************************************************************)
\* C20: a yielded section is not modified afterwards: once the extractor
\* has gone on to the end of the stream, every section it yielded still
\* holds the lines it held when it was yielded.
C20_YieldedSectionUnchanged ==
  /\ pc_w = "done"
       => \A k \in 1..Len(yielded_w) : YieldedListWindows(k) = yielded_w[k]
  /\ pc_l = "done"
       => \A k \in 1..Len(yielded_l) : YieldedListLinux(k) = yielded_l[k]

(***************************************************************************)
(* convert_windows_time_to_unix: claims.                                   *)
(***************************************************************************)
\* V / windows_tick - seconds_to_unix_epoch with its fraction dropped.
Truncated(windows_timestamp) ==
  IF windows_timestamp.unix >= 0 \/ windows_timestamp.ticks = 0
  THEN windows_timestamp.unix
  ELSE windows_timestamp.unix + 1

\* C21: the result U of convert_windows_time_to_unix for V is less than
\* one second (windows_tick ticks) away from V, and is V / windows_tick -
\* seconds_to_unix_epoch truncated to whole seconds.
C21_TruncatedSeconds ==
  pc_t = "returned"
    => LET U == Val(t_unix)
           \* V - (U * windows_tick + seconds_to_unix_epoch * windows_tick)
           d == (t_stamp.unix - U) * windows_tick + t_stamp.ticks
       IN  /\ d < windows_tick
           /\ -d < windows_tick
           /\ U = Truncated(t_stamp)

(***************************************************************************)
(* Windows base pass: claims.                                              *)
(***************************************************************************)
\* The text s without the prefix it starts with, if it does.
WithoutPrefix(s, prefix) ==
  IF Len(s) >= Len(prefix) /\ SubSeq(s, 1, Len(prefix)) = prefix
  THEN SubSeq(s, Len(prefix) + 1, Len(s))
  ELSE s

\* What one key of the tree is to contribute: nothing unless its name has
\* four '&'-separated fields led by 'Disk', else one entry per device subkey.
KeyContribution(key) ==
  LET fields == Split(key.name, "&")
  IN  IF Len(fields) # 4 \/ fields[1] # <<"Disk">> THEN << >>
      ELSE [ i \in 1..Len(key.devices) |->
               [ usbstor_vendor |-> Some(WithoutPrefix(fields[2], <<"Ven", "_">>)),
                 usbstor_product |-> Some(WithoutPrefix(fields[3], <<"Prod", "_">>)),
                 version |-> Some(WithoutPrefix(fields[4], <<"Rev", "_">>)),
                 serial_number |-> Some(Split(key.devices[i].name, "&")[1]),
                 friendly_name |-> key.devices[i].FriendlyName ] ]

RECURSIVE TreeContribution(_)
TreeContribution(tree) ==
  IF tree = << >> THEN << >>
  ELSE KeyContribution(tree[1]) \o TreeContribution(Tail(tree))

\* C22: the base pass returns, in the order of the tree, one record per
\* device subkey of each key whose name has four '&'-separated fields led
\* by 'Disk' and none for another key; the record has the fields of the
\* key name without their Ven_, Prod_ and Rev_ prefixes, the subkey name
\* up to its first '&' as serial number, and the FriendlyName value.
C22_BaseRecords ==
  pc_b = "returned"
    => LET usb_devices == Val(b_devices)
           expected == TreeContribution(b_tree)
       IN  /\ Len(usb_devices) = Len(expected)
           /\ \A i \in 1..Len(expected) :
                /\ usb_devices[i].usbstor_vendor = expected[i].usbstor_vendor
                /\ usb_devices[i].usbstor_product = expected[i].usbstor_product
                /\ usb_devices[i].version = expected[i].version
                /\ usb_devices[i].serial_number = expected[i].serial_number
                /\ usb_devices[i].friendly_name = expected[i].friendly_name

(***************************************************************************)
(* Windows vendor/product-id pass: claims.                                 *)
(***************************************************************************)
\* The VID&PID keys of a USB tree, by position.
VidPidKeys(usb_tree) ==
  { i \in 1..Len(usb_tree) :
      Contains(usb_tree[i].id, <<"VID">>) /\ Contains(usb_tree[i].id, <<"PID">>) }

\* C23: the ids pass does not fail, also not on a VID&PID key without a
\* subkey; the record gets vendor_id and product_id exactly when the first
\* subkey of some VID&PID key is named as its serial number, and then they
\* are the first two '&' tokens of such a key without VID_ and PID_.
C23_IdsFromFirstSubkey ==
  (join_pass = "ids" /\ pc_j # "call")
    => /\ pc_j = "returned"
       /\ LET from == { i \in VidPidKeys(join_items) :
                          /\ join_items[i].subkeys # << >>
                          /\ Some(join_items[i].subkeys[1]) = join_device.serial_number }
              device == Val(join_result)
          IN  IF from = {}
              THEN device.vendor_id = None /\ device.product_id = None
              ELSE \E i \in from :
                     LET tokens == Split(join_items[i].id, "&")
                     IN  /\ device.vendor_id = Some(WithoutPrefix(tokens[1], <<"VID", "_">>))
                         /\ device.product_id = Some(WithoutPrefix(tokens[2], <<"PID", "_">>))

(***************************************************************************)
(* Windows section extractor: termination and shape of the sections.       *)
(***************************************************************************)
\* C24: the Windows extractor raises no error on any finite file, also not
\* when the last line is a start marker read with no section open or an end
\* marker read inside a section; a section still open at the end of the
\* file is not yielded.
C24_TerminatesNormally ==
  /\ pc_w # "error"
  /\ pc_w = "done"
       => \A k \in 1..Len(yielded_w) :
            StartsWithEnd(log_file_w, Last(yielded_w[k]))

\* C25: every section the Windows extractor yields has at least four lines,
\* the first two being two consecutive start-marker lines of the file and
\* the last two two consecutive end-marker lines; a section is only ever
\* open on such a doubled start, never on a single start-marker line.
C25_SectionShape ==
  /\ log_section # << >>
       => /\ Len(log_section) >= 2
          /\ StartsWithStart(log_file_w, log_section[1])
          /\ StartsWithStart(log_file_w, log_section[2])
          /\ log_section[2] = log_section[1] + 1
  /\ \A k \in 1..Len(yielded_w) :
       LET section_k == yielded_w[k]
           n == Len(section_k)
       IN  /\ n >= 4
           /\ StartsWithStart(log_file_w, section_k[1])
           /\ StartsWithStart(log_file_w, section_k[2])
           /\ section_k[2] = section_k[1] + 1
           /\ StartsWithEnd(log_file_w, section_k[n - 1])
           /\ StartsWithEnd(log_file_w, section_k[n])
           /\ section_k[n] = section_k[n - 1] + 1

\* A single start-marker line followed by another line was read and dropped
\* with no section open, and the doubled markers after it gave a section.
C25_SingleStartThenSection ==
  /\ pc_w = "done"
  /\ Len(log_file_w) >= 2
  /\ StartsWithStart(log_file_w, 1)
  /\ ~StartsWithStart(log_file_w, 2)
  /\ Len(yielded_w) = 1
  /\ yielded_w[1][1] = 3

(***************************************************************************)
(* get_usb_devices: order of the passes.                                   *)
(***************************************************************************)
\* The positions of WindowsViewer.get_usb_devices in the order of its lines;
\* "logs" and "first" are the two loops of the first-connect pass.
WindowsOrder ==
  <<"base", "ids", "guids", "letters", "logs", "first", "last", "enrich", "done">>

\* A record without what the enrichment writes.
Correlated(device) ==
  [device EXCEPT !.vendor_name = None, !.product_description = None]

CorrelatedAll(usb_devices) ==
  [i \in 1..Len(usb_devices) |-> Correlated(usb_devices[i])]

\* C26: get_usb_devices goes through its passes in the order of the source
\* (Windows: base, ids, GUID, drive letter, first connect, last connect,
\* enrichment; Linux: the whole scan, then enrichment); a step of the
\* enrichment loop is taken only after the last correlation step, and from
\* then on nothing but vendor_name and product_description changes; the
\* last-connect pass sets last_connect_date only on a record whose guid was
\* set before, so a record with a last_connect_date has a guid.
C26_PipelineOrder ==
  [][ /\ pc_v' # pc_v
           => \/ pc_v' = "raised"
              \/ \E k \in 1..(Len(WindowsOrder) - 1) :
                   pc_v = WindowsOrder[k] /\ pc_v' = WindowsOrder[k + 1]
      /\ enrich_ix_w' # enrich_ix_w => pc_v = "enrich"
      /\ CorrelatedAll(usb_devices_w') # CorrelatedAll(usb_devices_w)
           => (pc_v # "enrich" /\ enrich_ix_w = 0)
      /\ usb_devices_w' # usb_devices_w /\ pc_v = "enrich"
           => enrich_ix_w' = enrich_ix_w + 1
      /\ \A i \in 1..Len(usb_devices_w) :
           usb_devices_w'[i].last_connect_date # usb_devices_w[i].last_connect_date
             => /\ pc_v = "last"
                /\ usb_devices_w[i].guid # None
                /\ usb_devices_w'[i].guid = usb_devices_w[i].guid
      /\ \A i \in 1..Len(usb_devices_w') :
           usb_devices_w'[i].last_connect_date # None => usb_devices_w'[i].guid # None
      /\ pc_c' # pc_c
           => \/ pc_c' = "raised"
              \/ pc_c = "scan" /\ pc_c' = "enrich" /\ file_ix = Len(log_paths)
              \/ pc_c = "enrich" /\ pc_c' = "done"
      /\ enrich_ix' # enrich_ix => pc_c = "enrich"
      /\ CorrelatedAll(usb_devices_l') # CorrelatedAll(usb_devices_l)
           => (pc_c = "scan" /\ enrich_ix = 0)
    ]_vars

\* Windows: get_usb_devices has returned a record that the last-connect
\* pass dated and the enrichment looked up.
C26_DatedAndLookedUp ==
  /\ pc_v = "done"
  /\ \E i \in 1..Len(usb_devices_w) :
       /\ usb_devices_w[i].last_connect_date # None
       /\ usb_devices_w[i].vendor_name # None

(***************************************************************************)
(* WindowsViewer.get_usb_devices: what the passes after the base pass      *)
(* leave alone.                                                            *)
(***************************************************************************)
\* The record `after` is the record `before` but for the fields the pass at
\* position pc may write.
WritesOnlyTargets(pc, before, after) ==
  IF pc = "ids"
  THEN after = [before EXCEPT !.vendor_id = after.vendor_id,
                              !.product_id = after.product_id]
  ELSE IF pc = "guids" THEN after = [before EXCEPT !.guid = after.guid]
  ELSE IF pc = "letters" THEN after = [before EXCEPT !.drive_letter = after.drive_letter]
  ELSE IF pc = "first"
  THEN after = [before EXCEPT !.first_connect_date = after.first_connect_date]
  ELSE IF pc = "last"
  THEN after = [before EXCEPT !.last_connect_date = after.last_connect_date]
  ELSE IF pc = "enrich"
  THEN after = [before EXCEPT !.vendor_name = after.vendor_name,
                              !.product_description = after.product_description]
  ELSE after = before

\* C27: once the base pass has built the list, every later step of
\* get_usb_devices leaves the list with the same records in the same
\* places, with their serial_number, parent_prefix_id, usbstor_vendor,
\* usbstor_product, version and friendly_name unchanged, and a join pass or
\* the enrichment changes only the fields it is there to set.
C27_RecordSetStable ==
  [][ pc_v # "base"
        => /\ Len(usb_devices_w') = Len(usb_devices_w)
           /\ \A i \in 1..Len(usb_devices_w) :
                LET before == usb_devices_w[i]
                    after == usb_devices_w'[i]
                IN  /\ after.serial_number = before.serial_number
                    /\ after.parent_prefix_id = before.parent_prefix_id
                    /\ after.usbstor_vendor = before.usbstor_vendor
                    /\ after.usbstor_product = before.usbstor_product
                    /\ after.version = before.version
                    /\ after.friendly_name = before.friendly_name
                    /\ WritesOnlyTargets(pc_v, before, after)
    ]_vars

\* get_usb_devices has returned two records, one of which every join pass
\* and the enrichment wrote to.
C27_TwoRecordsAllPassesWrote ==
  /\ pc_v = "done"
  /\ Len(usb_devices_w) = 2
  /\ \E i \in 1..2 :
       /\ usb_devices_w[i].vendor_id # None
       /\ usb_devices_w[i].guid # None
       /\ usb_devices_w[i].drive_letter # None
       /\ usb_devices_w[i].first_connect_date # None
       /\ usb_devices_w[i].last_connect_date # None
       /\ usb_devices_w[i].vendor_name # None

====
